---- MODULE Spec2Model ----
(***************************************************************************)
(* The chat relay of LLM-Playground: the POST handler of                   *)
(* app/api/chat/route.ts (Strategy-pattern revision), its provider         *)
(* registry and the three provider strategies.                             *)
(*                                                                         *)
(* Representation.  A JavaScript string is the sequence of its characters, *)
(* so that startsWith, substring, includes and template literals are       *)
(* computed.  A JavaScript value is a pair <<type, payload>>: the payload  *)
(* is the characters of a string, the canonical decimal characters of a    *)
(* number, the elements of an array, the <<key, value>> pairs of an object *)
(* in insertion order.  A text on the wire (an HTTP body) is a sequence of *)
(* lexical tokens <<kind, payload>>; TextChars renders it to characters.   *)
(***************************************************************************)
EXTENDS Integers, Sequences, FiniteSets

VARIABLES
    pc,         \* position of the POST handler: "idle", "awaiting" (at await fetch), "done"
    request,    \* the inbound HTTP request body (a text)
    body,       \* the handler's local `body` (result of request.json())
    providers,  \* LLMProviderFactory.providers
    outbound,   \* the fetch calls issued so far, in order
    upstream,   \* the upstream's reply to the fetch
    response,   \* the NextResponse the handler returned
    log,        \* console.error calls, in order
    lookup,     \* the last direct call of LLMProviderFactory.getProvider and its result
    calls,      \* concurrent invocations of POST: each with its position and locals
    registered, \* the providers passed to registerProvider so far, in call order
    page        \* the page (component Home): its React state, the local storage, its requests

vars == <<pc, request, body, providers, outbound, upstream, response, log, lookup, calls,
          registered, page>>

----------------------------------------------------------------------------
(* String literals of the source, as character sequences. *)

ClaudePrefix == <<"c", "l", "a", "u", "d", "e", "-">>
DeepseekPrefix == <<"d", "e", "e", "p", "s", "e", "e", "k", "-">>
DefaultSystem == <<"Y", "o", "u", " ", "a", "r", "e", " ", "a", " ", "h", "e", "l", "p", "f", "u", "l", " ", "a", "s", "s", "i", "s", "t", "a", "n", "t", ".">>
MissingRequiredFields == <<"M", "i", "s", "s", "i", "n", "g", " ", "r", "e", "q", "u", "i", "r", "e", "d", " ", "f", "i", "e", "l", "d", "s">>
InternalServerError == <<"I", "n", "t", "e", "r", "n", "a", "l", " ", "s", "e", "r", "v", "e", "r", " ", "e", "r", "r", "o", "r">>
InvalidJSONResponse == <<"I", "n", "v", "a", "l", "i", "d", " ", "J", "S", "O", "N", " ", "r", "e", "s", "p", "o", "n", "s", "e", " ", "f", "r", "o", "m", " ", "L", "L", "M", " ", "p", "r", "o", "v", "i", "d", "e", "r">>
ReceivedHTML == <<"R", "e", "c", "e", "i", "v", "e", "d", " ", "H", "T", "M", "L", " ", "e", "r", "r", "o", "r", " ", "p", "a", "g", "e", " ", "i", "n", "s", "t", "e", "a", "d", " ", "o", "f", " ", "J", "S", "O", "N">>
DoctypeMarker == <<"<", "!", "D", "O", "C", "T", "Y", "P", "E">>
HttpPrefix == <<"H", "T", "T", "P", " ">>
ColonSpace == <<":", " ">>
BearerPrefix == <<"B", "e", "a", "r", "e", "r", " ">>
ApplicationJson == <<"a", "p", "p", "l", "i", "c", "a", "t", "i", "o", "n", "/", "j", "s", "o", "n">>
AnthropicVersion == <<"2", "0", "2", "3", "-", "0", "6", "-", "0", "1">>
K_apiKey == <<"a", "p", "i", "K", "e", "y">>
K_model == <<"m", "o", "d", "e", "l">>
K_messages == <<"m", "e", "s", "s", "a", "g", "e", "s">>
K_temperature == <<"t", "e", "m", "p", "e", "r", "a", "t", "u", "r", "e">>
K_max_completion_tokens == <<"m", "a", "x", "_", "c", "o", "m", "p", "l", "e", "t", "i", "o", "n", "_", "t", "o", "k", "e", "n", "s">>
K_response_format == <<"r", "e", "s", "p", "o", "n", "s", "e", "_", "f", "o", "r", "m", "a", "t">>
K_type == <<"t", "y", "p", "e">>
K_role == <<"r", "o", "l", "e">>
K_content == <<"c", "o", "n", "t", "e", "n", "t">>
K_max_tokens == <<"m", "a", "x", "_", "t", "o", "k", "e", "n", "s">>
K_system == <<"s", "y", "s", "t", "e", "m">>
K_error == <<"e", "r", "r", "o", "r">>
K_message == <<"m", "e", "s", "s", "a", "g", "e">>
K_details == <<"d", "e", "t", "a", "i", "l", "s">>
RoleUser == <<"u", "s", "e", "r">>
RoleSystem == <<"s", "y", "s", "t", "e", "m">>

----------------------------------------------------------------------------
(* JavaScript values. *)

Undefined == <<"undefined", <<>> >>
Null == <<"null", <<>> >>
Bool(b) == <<"bool", b>>
Num(digits) == <<"num", digits>>
Str(chars) == <<"str", chars>>
Arr(elems) == <<"arr", elems>>
Obj(props) == <<"obj", props>>
TypeOf(x) == x[1]
ValueOf(x) == x[2]

Min(a, b) == IF a <= b THEN a ELSE b

\* ToBoolean: undefined, null, false, 0 and "" are falsy, everything else truthy.
Truthy(x) ==
    CASE TypeOf(x) \in {"undefined", "null"} -> FALSE
      [] TypeOf(x) = "bool" -> ValueOf(x)
      [] TypeOf(x) = "num" -> ValueOf(x) # <<"0">>
      [] TypeOf(x) = "str" -> ValueOf(x) # <<>>
      [] OTHER -> TRUE

\* Reading a property of undefined or null throws a TypeError.
PropThrows(x) == TypeOf(x) \in {"undefined", "null"}

HasOwn(x, key) == TypeOf(x) = "obj" /\ \E i \in 1..Len(ValueOf(x)) : ValueOf(x)[i][1] = key

\* x.key for a value that is not undefined or null: the own property of an
\* object, undefined for a missing key and for primitives and arrays.
Get(x, key) ==
    IF HasOwn(x, key)
    THEN ValueOf(x)[CHOOSE i \in 1..Len(ValueOf(x)) : ValueOf(x)[i][1] = key][2]
    ELSE Undefined

\* String(x), as a template literal and a header value apply it.
ToStr(x) ==
    CASE TypeOf(x) \in {"str", "num"} -> ValueOf(x)
      [] TypeOf(x) = "bool" -> IF ValueOf(x) THEN <<"t", "r", "u", "e">> ELSE <<"f", "a", "l", "s", "e">>
      [] TypeOf(x) = "null" -> <<"n", "u", "l", "l">>
      [] TypeOf(x) = "undefined" -> <<"u", "n", "d", "e", "f", "i", "n", "e", "d">>
      [] OTHER -> <<"[", "o", "b", "j", "e", "c", "t", " ", "O", "b", "j", "e", "c", "t", "]">>

\* String.prototype.startsWith / substring(0, n) / includes.
StartsWith(s, prefix) ==
    Len(s) >= Len(prefix) /\ SubSeq(s, 1, Len(prefix)) = prefix
Substring0(s, n) == SubSeq(s, 1, Min(n, Len(s)))
Includes(s, pat) ==
    \E i \in 1..(Len(s) - Len(pat) + 1) : SubSeq(s, i, i + Len(pat) - 1) = pat

Digit(d) == <<"0", "1", "2", "3", "4", "5", "6", "7", "8", "9">>[d + 1]
RECURSIVE DigitsOf(_)
\* The decimal characters of a natural number (`${response.status}`).
DigitsOf(n) == IF n < 10 THEN <<Digit(n)>> ELSE DigitsOf(n \div 10) \o <<Digit(n % 10)>>

----------------------------------------------------------------------------
(* JSON texts: JSON.stringify and JSON.parse. *)

P(c) == <<"p", c>>            \* punctuation { } [ ] : ,
W(chars) == <<"w", chars>>    \* the words null, true, false
N(digits) == <<"n", digits>>  \* a number literal
S(chars) == <<"s", chars>>    \* a string literal (quotes implied)
C(c) == <<"c", c>>            \* any other character

Kind(tk) == tk[1]
Payload(tk) == tk[2]
IsP(tk, c) == Kind(tk) = "p" /\ Payload(tk) = c

WordNull == <<"n", "u", "l", "l">>
WordTrue == <<"t", "r", "u", "e">>
WordFalse == <<"f", "a", "l", "s", "e">>

RECURSIVE JSONStringify(_)
RECURSIVE StringifyElems(_)
RECURSIVE StringifyProps(_, _)

\* Array elements, comma-separated; undefined serialises as null.
StringifyElems(elems) ==
    IF elems = <<>> THEN <<>>
    ELSE JSONStringify(elems[1])
         \o (IF Len(elems) > 1 THEN <<P(",")>> \o StringifyElems(Tail(elems)) ELSE <<>>)

\* Object members in insertion order; members whose value is undefined are omitted.
StringifyProps(props, first) ==
    IF props = <<>> THEN <<>>
    ELSE IF TypeOf(props[1][2]) = "undefined" THEN StringifyProps(Tail(props), first)
    ELSE (IF first THEN <<>> ELSE <<P(",")>>)
         \o <<S(props[1][1]), P(":")>> \o JSONStringify(props[1][2])
         \o StringifyProps(Tail(props), FALSE)

JSONStringify(x) ==
    CASE TypeOf(x) \in {"null", "undefined"} -> <<W(WordNull)>>
      [] TypeOf(x) = "bool" -> <<W(IF ValueOf(x) THEN WordTrue ELSE WordFalse)>>
      [] TypeOf(x) = "num" -> <<N(ValueOf(x))>>
      [] TypeOf(x) = "str" -> <<S(ValueOf(x))>>
      [] TypeOf(x) = "arr" -> <<P("[")>> \o StringifyElems(ValueOf(x)) \o <<P("]")>>
      [] OTHER -> <<P("{")>> \o StringifyProps(ValueOf(x), TRUE) \o <<P("}")>>

ParseFail == [ok |-> FALSE, val |-> Undefined, next |-> 0]
Parsed(x, next) == [ok |-> TRUE, val |-> x, next |-> next]

\* obj[key] = x while parsing: a repeated key keeps its place and takes the later value.
PutProp(props, key, x) ==
    IF \E i \in 1..Len(props) : props[i][1] = key
    THEN [i \in 1..Len(props) |-> IF props[i][1] = key THEN <<key, x>> ELSE props[i]]
    ELSE Append(props, <<key, x>>)

RECURSIVE ParseValue(_, _)
RECURSIVE ParseElems(_, _, _)
RECURSIVE ParseProps(_, _, _)

ParseElems(toks, i, acc) ==
    LET r == ParseValue(toks, i) IN
    IF ~r.ok \/ r.next > Len(toks) THEN ParseFail
    ELSE IF IsP(toks[r.next], ",") THEN ParseElems(toks, r.next + 1, Append(acc, r.val))
    ELSE IF IsP(toks[r.next], "]") THEN Parsed(Arr(Append(acc, r.val)), r.next + 1)
    ELSE ParseFail

ParseProps(toks, i, acc) ==
    IF i + 1 > Len(toks) \/ Kind(toks[i]) # "s" \/ ~IsP(toks[i + 1], ":") THEN ParseFail
    ELSE LET r == ParseValue(toks, i + 2) IN
         IF ~r.ok \/ r.next > Len(toks) THEN ParseFail
         ELSE IF IsP(toks[r.next], ",")
              THEN ParseProps(toks, r.next + 1, PutProp(acc, Payload(toks[i]), r.val))
         ELSE IF IsP(toks[r.next], "}")
              THEN Parsed(Obj(PutProp(acc, Payload(toks[i]), r.val)), r.next + 1)
         ELSE ParseFail

ParseValue(toks, i) ==
    IF i > Len(toks) THEN ParseFail
    ELSE LET tk == toks[i] IN
         CASE Kind(tk) = "w" ->
                Parsed(IF Payload(tk) = WordNull THEN Null ELSE Bool(Payload(tk) = WordTrue), i + 1)
           [] Kind(tk) = "n" -> Parsed(Num(Payload(tk)), i + 1)
           [] Kind(tk) = "s" -> Parsed(Str(Payload(tk)), i + 1)
           [] IsP(tk, "[") ->
                IF i + 1 <= Len(toks) /\ IsP(toks[i + 1], "]")
                THEN Parsed(Arr(<<>>), i + 2)
                ELSE ParseElems(toks, i + 1, <<>>)
           [] IsP(tk, "{") ->
                IF i + 1 <= Len(toks) /\ IsP(toks[i + 1], "}")
                THEN Parsed(Obj(<<>>), i + 2)
                ELSE ParseProps(toks, i + 1, <<>>)
           [] OTHER -> ParseFail

\* JSON.parse(text): ok = FALSE stands for the SyntaxError it throws.
JSONParse(text) ==
    LET r == ParseValue(text, 1) IN
    IF r.ok /\ r.next = Len(text) + 1
    THEN [ok |-> TRUE, val |-> r.val]
    ELSE [ok |-> FALSE, val |-> Undefined]

\* The characters of one token.
TokenChars(tk) ==
    CASE Kind(tk) \in {"p", "c"} -> <<Payload(tk)>>
      [] Kind(tk) = "s" -> <<"\"">> \o Payload(tk) \o <<"\"">>
      [] OTHER -> Payload(tk)

RECURSIVE TextChars(_)
\* The characters of a text: those of its tokens, concatenated (by halves).
TextChars(text) ==
    IF text = <<>> THEN <<>>
    ELSE IF Len(text) = 1 THEN TokenChars(text[1])
    ELSE LET half == Len(text) \div 2 IN
         TextChars(SubSeq(text, 1, half)) \o TextChars(SubSeq(text, half + 1, Len(text)))

----------------------------------------------------------------------------
(* The provider strategies. *)

DetailsLimit == 200
StatusBadRequest == 400
StatusInternalError == 500
StatusBadGateway == 502
StatusOK == 200

StrictEq(a, b) == TypeOf(a) = TypeOf(b) /\ ValueOf(a) = ValueOf(b)

\* A variant of ClaudeProvider.canHandle that tests the prefix 'claude' without the dash.
ClaudeProvider_canHandle_NoDash(model) ==
    TypeOf(model) = "str" /\ StartsWith(ValueOf(model), SubSeq(ClaudePrefix, 1, Len(ClaudePrefix) - 1))

\* ClaudeProvider.canHandle: model.startsWith('claude-')
ClaudeProvider_canHandle(model) == TypeOf(model) = "str" /\ StartsWith(ValueOf(model), ClaudePrefix)

\* DeepseekProvider.canHandle: model.startsWith('deepseek-')
DeepseekProvider_canHandle(model) == TypeOf(model) = "str" /\ StartsWith(ValueOf(model), DeepseekPrefix)

\* OpenAIProvider.canHandle: the fallback, true for every model
OpenAIProvider_canHandle(model) == TRUE

\* canHandle of the LLMProvider subclasses a caller of registerProvider writes:
\* one that accepts every model, one that accepts none, one for the prefix 'gpt-'.
CustomProvider_canHandle(p, model) ==
    CASE p = "AnyProvider" -> TRUE
      [] p = "NoneProvider" -> FALSE
      [] OTHER -> TypeOf(model) = "str" /\ StartsWith(ValueOf(model), <<"g", "p", "t", "-">>)

CustomProviders == {"AnyProvider", "NoneProvider", "GptProvider"}

canHandle(p, model) ==
    CASE p = "ClaudeProvider" -> ClaudeProvider_canHandle(model)
      [] p = "DeepseekProvider" -> DeepseekProvider_canHandle(model)
      [] p \in CustomProviders -> CustomProvider_canHandle(p, model)
      [] OTHER -> OpenAIProvider_canHandle(model)

\* model.startsWith is not a function when model is not a string: a TypeError.
canHandleThrows(p, model) ==
    p \in {"ClaudeProvider", "DeepseekProvider"} /\ TypeOf(model) # "str"

InitialProviders == <<"ClaudeProvider", "DeepseekProvider", "OpenAIProvider">>

\* LLMProviderFactory.getProvider: providers.find(p => p.canHandle(model)), and the
\* Error thrown when nothing is found.  find stops at the first provider whose
\* canHandle returns true or throws.
getProvider(model) ==
    LET stops == {i \in 1..Len(providers) :
                    canHandleThrows(providers[i], model) \/ canHandle(providers[i], model)}
    IN  IF stops = {} THEN [throws |-> TRUE, provider |-> "none"]
        ELSE LET i == CHOOSE j \in stops : \A h \in stops : j <= h IN
             IF canHandleThrows(providers[i], model)
             THEN [throws |-> TRUE, provider |-> "none"]
             ELSE [throws |-> FALSE, provider |-> providers[i]]

\* A variant of registerProvider that puts the provider at the front of the list.
registerProvider_Unshift(list, provider) == <<provider>> \o list

\* A variant of registerProvider that pushes the provider at the end of the list.
registerProvider_Push(list, provider) == Append(list, provider)

\* LLMProviderFactory.registerProvider: this.providers.splice(-1, 0, provider),
\* which inserts before the last element (at index 0 of an empty list).
registerProvider(list, provider) ==
    LET start == IF Len(list) - 1 < 0 THEN 0 ELSE Len(list) - 1 IN
    SubSeq(list, 1, start) \o <<provider>> \o SubSeq(list, start + 1, Len(list))

Prop(key, x) == <<key, x>>

\* request.messages.filter(msg => msg.role === 'user')
FilterUser(messages) ==
    SelectSeq(messages, LAMBDA msg : StrictEq(Get(msg, K_role), Str(RoleUser)))

\* A variant of the system field that is always the default text.
SystemOf_DefaultOnly(messages) == Str(DefaultSystem)

\* request.messages.find(msg => msg.role === 'system')?.content || 'You are a helpful assistant.'
SystemOf(messages) ==
    LET hits == {i \in 1..Len(messages) : StrictEq(Get(messages[i], K_role), Str(RoleSystem))}
        content == IF hits = {} THEN Undefined
                   ELSE Get(messages[CHOOSE j \in hits : \A h \in hits : j <= h], K_content)
    IN  IF Truthy(content) THEN content ELSE Str(DefaultSystem)

\* ClaudeProvider.makeRequest throws a TypeError when messages has no filter
\* method (it is not an array) or when an element is null (msg.role).
ClaudeProvider_throws(req) ==
    LET m == Get(req, K_messages) IN
    TypeOf(m) # "arr" \/ \E i \in 1..Len(ValueOf(m)) : PropThrows(ValueOf(m)[i])

\* A variant of the spread that always writes the response_format member.
SpreadResponseFormat_Always(req) ==
    << Prop(K_response_format, Get(req, K_response_format)) >>

\* ...(request.response_format && { response_format: request.response_format })
SpreadResponseFormat(req) ==
    IF Truthy(Get(req, K_response_format))
    THEN << Prop(K_response_format, Get(req, K_response_format)) >>
    ELSE <<>>

\* A variant of ClaudeProvider's requestBody that spreads response_format as the
\* other two providers do.
ClaudeProvider_requestBody_WithFormat(req) ==
    LET m == ValueOf(Get(req, K_messages)) IN
    Obj(<< Prop(K_model, Get(req, K_model)),
           Prop(K_max_tokens, Get(req, K_max_completion_tokens)),
           Prop(K_temperature, Get(req, K_temperature)),
           Prop(K_messages, Arr(FilterUser(m))),
           Prop(K_system, SystemOf(m)) >>
        \o SpreadResponseFormat(req))

\* requestBody of ClaudeProvider.makeRequest
ClaudeProvider_requestBody(req) ==
    LET m == ValueOf(Get(req, K_messages)) IN
    Obj(<< Prop(K_model, Get(req, K_model)),
           Prop(K_max_tokens, Get(req, K_max_completion_tokens)),
           Prop(K_temperature, Get(req, K_temperature)),
           Prop(K_messages, Arr(FilterUser(m))),
           Prop(K_system, SystemOf(m)) >>)

\* A variant of DeepseekProvider's requestBody that names the token count as
\* the OpenAI adapter does.
DeepseekProvider_requestBody_OpenAINames(req) ==
    Obj(<< Prop(K_model, Get(req, K_model)),
           Prop(K_messages, Get(req, K_messages)),
           Prop(K_temperature, Get(req, K_temperature)),
           Prop(K_max_completion_tokens, Get(req, K_max_completion_tokens)) >>
        \o SpreadResponseFormat(req))

\* requestBody of DeepseekProvider.makeRequest
DeepseekProvider_requestBody(req) ==
    Obj(<< Prop(K_model, Get(req, K_model)),
           Prop(K_messages, Get(req, K_messages)),
           Prop(K_temperature, Get(req, K_temperature)),
           Prop(K_max_tokens, Get(req, K_max_completion_tokens)) >>
        \o SpreadResponseFormat(req))

\* A variant of OpenAIProvider's requestBody without the response_format spread.
OpenAIProvider_requestBody_NoFormat(req) ==
    Obj(<< Prop(K_model, Get(req, K_model)),
           Prop(K_messages, Get(req, K_messages)),
           Prop(K_temperature, Get(req, K_temperature)),
           Prop(K_max_completion_tokens, Get(req, K_max_completion_tokens)) >>)

\* requestBody of OpenAIProvider.makeRequest
OpenAIProvider_requestBody(req) ==
    Obj(<< Prop(K_model, Get(req, K_model)),
           Prop(K_messages, Get(req, K_messages)),
           Prop(K_temperature, Get(req, K_temperature)),
           Prop(K_max_completion_tokens, Get(req, K_max_completion_tokens)) >>
        \o SpreadResponseFormat(req))

Fetch(url, headers, requestBody) ==
    [url |-> url, method |-> "POST", headers |-> headers, body |-> JSONStringify(requestBody)]

\* A variant of ClaudeProvider.makeRequest that sends the key as a Bearer token.
ClaudeProvider_makeRequest_Bearer(req) ==
    Fetch("https://api.anthropic.com/v1/messages",
          << <<"Content-Type", ApplicationJson>>,
             <<"Authorization", BearerPrefix \o ToStr(Get(req, K_apiKey))>>,
             <<"anthropic-version", AnthropicVersion>> >>,
          ClaudeProvider_requestBody(req))

\* The fetch call of ClaudeProvider.makeRequest
ClaudeProvider_makeRequest(req) ==
    Fetch("https://api.anthropic.com/v1/messages",
          << <<"Content-Type", ApplicationJson>>,
             <<"x-api-key", ToStr(Get(req, K_apiKey))>>,
             <<"anthropic-version", AnthropicVersion>> >>,
          ClaudeProvider_requestBody(req))

\* The fetch call of DeepseekProvider.makeRequest
DeepseekProvider_makeRequest(req) ==
    Fetch("https://api.deepseek.com/chat/completions",
          << <<"Content-Type", ApplicationJson>>,
             <<"Accept", ApplicationJson>>,
             <<"Authorization", BearerPrefix \o ToStr(Get(req, K_apiKey))>> >>,
          DeepseekProvider_requestBody(req))

\* The fetch call of OpenAIProvider.makeRequest
OpenAIProvider_makeRequest(req) ==
    Fetch("https://api.openai.com/v1/chat/completions",
          << <<"Content-Type", ApplicationJson>>,
             <<"Authorization", BearerPrefix \o ToStr(Get(req, K_apiKey))>> >>,
          OpenAIProvider_requestBody(req))

makeRequestThrows(p, req) == p = "ClaudeProvider" /\ ClaudeProvider_throws(req)

makeRequest(p, req) ==
    CASE p = "ClaudeProvider" -> ClaudeProvider_makeRequest(req)
      [] p = "DeepseekProvider" -> DeepseekProvider_makeRequest(req)
      [] OTHER -> OpenAIProvider_makeRequest(req)

----------------------------------------------------------------------------
(* The POST handler. *)

NoResponse == [status |-> 0, body |-> <<>>]
NoCall == [url |-> "", method |-> "", headers |-> <<>>, body |-> <<>>]
NoReply == [kind |-> "none", status |-> 0, statusText |-> <<>>, text |-> <<>>,
            readable |-> FALSE, sent |-> [ok |-> FALSE, val |-> Undefined]]

\* NextResponse.json(value, { status })
NextResponseJson(x, status) == [status |-> status, body |-> JSONStringify(x)]

ErrorEnvelope(err) == Obj(<< Prop(K_error, err) >>)
MessageOnly(chars) == Obj(<< Prop(K_message, Str(chars)) >>)

\* A variant of the validation that does not require max_completion_tokens.
MissingRequired_NoMaxTokens(b) ==
    \/ ~Truthy(Get(b, K_apiKey))
    \/ ~Truthy(Get(b, K_model))
    \/ ~Truthy(Get(b, K_messages))
    \/ TypeOf(Get(b, K_temperature)) = "undefined"

\* A variant of the validation that tests temperature for truthiness, as it
\* tests the first three fields.
MissingRequired_FalsyTemperature(b) ==
    \/ ~Truthy(Get(b, K_apiKey))
    \/ ~Truthy(Get(b, K_model))
    \/ ~Truthy(Get(b, K_messages))
    \/ ~Truthy(Get(b, K_temperature))
    \/ TypeOf(Get(b, K_max_completion_tokens)) = "undefined"

\* The validation condition of POST: any of the five fields failing it gives 400.
MissingRequired(b) ==
    \/ ~Truthy(Get(b, K_apiKey))
    \/ ~Truthy(Get(b, K_model))
    \/ ~Truthy(Get(b, K_messages))
    \/ TypeOf(Get(b, K_temperature)) = "undefined"
    \/ TypeOf(Get(b, K_max_completion_tokens)) = "undefined"

\* A variant of the outer catch that answers 502 as the parse guard does.
Caught_BadGateway(b, logged) ==
    [kind |-> "respond", body |-> b, call |-> NoCall,
     response |-> NextResponseJson(ErrorEnvelope(MessageOnly(InternalServerError)),
                                   StatusBadGateway),
     log |-> logged \o <<"API Error:">>]

\* The outer catch of POST: console.error('API Error:', error) and the 500 response.
Caught(b, logged) ==
    [kind |-> "respond", body |-> b, call |-> NoCall,
     response |-> NextResponseJson(ErrorEnvelope(MessageOnly(InternalServerError)),
                                   StatusInternalError),
     log |-> logged \o <<"API Error:">>]

Responded(b, resp, logged) ==
    [kind |-> "respond", body |-> b, call |-> NoCall, response |-> resp, log |-> logged]

\* A variant in which the adapter builds its payload in the request object
\* itself, so that `body` holds the payload after the call.
Fetching_PayloadInPlace(b, call) ==
    [kind |-> "fetch", body |-> JSONParse(call.body).val, call |-> call,
     response |-> NoResponse, log |-> <<>>]

Fetching(b, call) ==
    [kind |-> "fetch", body |-> b, call |-> call, response |-> NoResponse, log |-> <<>>]

\* A variant of POST in which a body that does not parse fails the validation.
POSTBegin_ParseFailureIs400(text) ==
    LET parsed == JSONParse(text) IN
    IF ~parsed.ok \/ PropThrows(parsed.val) \/ MissingRequired(parsed.val)
    THEN Responded(IF parsed.ok THEN parsed.val ELSE Undefined,
                   NextResponseJson(ErrorEnvelope(MessageOnly(MissingRequiredFields)),
                                    StatusBadRequest), <<>>)
    ELSE LET g == getProvider(Get(parsed.val, K_model)) IN
         IF g.throws \/ makeRequestThrows(g.provider, parsed.val) THEN Caught(parsed.val, <<>>)
         ELSE Fetching(parsed.val, makeRequest(g.provider, parsed.val))

\* POST from its entry to the await of provider.makeRequest(body), or to the
\* response it returns without calling out.
POSTBegin(text) ==
    LET parsed == JSONParse(text) IN                          \* await request.json()
    IF ~parsed.ok THEN Caught(Undefined, <<>>)
    ELSE LET b == parsed.val IN
         IF PropThrows(b) THEN Caught(b, <<>>)                \* body.apiKey of null
         ELSE IF MissingRequired(b)
         THEN Responded(b, NextResponseJson(ErrorEnvelope(MessageOnly(MissingRequiredFields)),
                                            StatusBadRequest), <<>>)
         ELSE LET g == getProvider(Get(b, K_model)) IN
              IF g.throws THEN Caught(b, <<>>)
              ELSE IF makeRequestThrows(g.provider, b) THEN Caught(b, <<>>)
              ELSE Fetching(b, makeRequest(g.provider, b))

\* response.ok
ResponseOk(reply) == reply.status \in 200..299

\* `HTTP ${response.status}: ${response.statusText}`
HttpMessage(reply) ==
    HttpPrefix \o DigitsOf(reply.status) \o ColonSpace \o reply.statusText

\* A variant of the details that does not cut the body.
DetailsOf_Untruncated(chars) ==
    IF Includes(chars, DoctypeMarker) THEN ReceivedHTML ELSE chars

\* details of the synthesised error for a non-JSON error body
DetailsOf(chars) ==
    IF Includes(chars, DoctypeMarker) THEN ReceivedHTML ELSE Substring0(chars, DetailsLimit)

\* errorData and what was logged, for a non-ok response
ErrorData(reply) ==
    IF ~reply.readable                                        \* response.text() rejects
    THEN [data |-> ErrorEnvelope(MessageOnly(HttpMessage(reply))),
          log |-> <<"Failed to read error response:">>]
    ELSE LET parsed == JSONParse(reply.text) IN
         IF parsed.ok THEN [data |-> parsed.val, log |-> <<>>]
         ELSE [data |-> ErrorEnvelope(Obj(<< Prop(K_message, Str(HttpMessage(reply))),
                                             Prop(K_details, Str(DetailsOf(TextChars(reply.text)))) >>)),
               log |-> <<"Non-JSON error response:">>]

\* The branch of POST for a non-ok response: the upstream's status with its error,
\* or with a synthesised one.
POSTErrorBranch(b, reply) ==
    LET e == ErrorData(reply) IN
    IF PropThrows(e.data) THEN Caught(b, e.log)               \* errorData.error of null
    ELSE Responded(b,
            NextResponseJson(
                ErrorEnvelope(IF Truthy(Get(e.data, K_error)) THEN Get(e.data, K_error)
                              ELSE MessageOnly(HttpMessage(reply))),
                reply.status),
            e.log)

\* A variant of the ok branch that answers with the upstream's status.
POSTSuccessBranch_RelayStatus(b, reply) ==
    LET parsed == IF reply.readable THEN JSONParse(reply.text)
                  ELSE [ok |-> FALSE, val |-> Undefined] IN
    IF ~parsed.ok
    THEN Responded(b, NextResponseJson(ErrorEnvelope(MessageOnly(InvalidJSONResponse)),
                                       StatusBadGateway),
                   <<"Failed to parse successful response as JSON:">>)
    ELSE Responded(b, NextResponseJson(parsed.val, reply.status), <<>>)

\* A variant of the ok branch without the try around the parse: a failure reaches
\* the outer catch.
POSTSuccessBranch_NoParseGuard(b, reply) ==
    LET parsed == IF reply.readable THEN JSONParse(reply.text)
                  ELSE [ok |-> FALSE, val |-> Undefined] IN
    IF ~parsed.ok THEN Caught(b, <<>>)
    ELSE Responded(b, NextResponseJson(parsed.val, StatusOK), <<>>)

\* The branch of POST for an ok response: the parsed body with status 200, or 502
\* when reading or parsing it throws.
POSTSuccessBranch(b, reply) ==
    LET parsed == IF reply.readable THEN JSONParse(reply.text)
                  ELSE [ok |-> FALSE, val |-> Undefined] IN
    IF ~parsed.ok
    THEN Responded(b, NextResponseJson(ErrorEnvelope(MessageOnly(InvalidJSONResponse)),
                                       StatusBadGateway),
                   <<"Failed to parse successful response as JSON:">>)
    ELSE Responded(b, NextResponseJson(parsed.val, StatusOK), <<>>)

\* POST from the resolution of the fetch to the response it returns.
POSTResume(b, reply) ==
    IF ~ResponseOk(reply) THEN POSTErrorBranch(b, reply) ELSE POSTSuccessBranch(b, reply)

----------------------------------------------------------------------------
(* The earlier revision of POST, with the three calls written out in an
   if / else if / else. *)

\* A variant of the Deepseek branch without the Accept header.
Inline_deepseekCall_NoAccept(b) ==
    [url |-> "https://api.deepseek.com/chat/completions", method |-> "POST",
     headers |-> << <<"Content-Type", ApplicationJson>>,
                    <<"Authorization", BearerPrefix \o ToStr(Get(b, K_apiKey))>> >>,
     body |-> JSONStringify(
                Obj(<< Prop(K_model, Get(b, K_model)),
                       Prop(K_messages, Get(b, K_messages)),
                       Prop(K_temperature, Get(b, K_temperature)),
                       Prop(K_max_tokens, Get(b, K_max_completion_tokens)) >>
                    \o SpreadResponseFormat(b)))]

\* if (isClaudeModel(body.model)): claudeRequestBody and its fetch
Inline_claudeCall(b) ==
    [url |-> "https://api.anthropic.com/v1/messages", method |-> "POST",
     headers |-> << <<"Content-Type", ApplicationJson>>,
                    <<"x-api-key", ToStr(Get(b, K_apiKey))>>,
                    <<"anthropic-version", AnthropicVersion>> >>,
     body |-> JSONStringify(
                Obj(<< Prop(K_model, Get(b, K_model)),
                       Prop(K_max_tokens, Get(b, K_max_completion_tokens)),
                       Prop(K_temperature, Get(b, K_temperature)),
                       Prop(K_messages, Arr(FilterUser(ValueOf(Get(b, K_messages))))),
                       Prop(K_system, SystemOf(ValueOf(Get(b, K_messages)))) >>))]

\* else if (isDeepseekModel(body.model)): deepseekRequestBody and its fetch
Inline_deepseekCall(b) ==
    [url |-> "https://api.deepseek.com/chat/completions", method |-> "POST",
     headers |-> << <<"Content-Type", ApplicationJson>>,
                    <<"Accept", ApplicationJson>>,
                    <<"Authorization", BearerPrefix \o ToStr(Get(b, K_apiKey))>> >>,
     body |-> JSONStringify(
                Obj(<< Prop(K_model, Get(b, K_model)),
                       Prop(K_messages, Get(b, K_messages)),
                       Prop(K_temperature, Get(b, K_temperature)),
                       Prop(K_max_tokens, Get(b, K_max_completion_tokens)) >>
                    \o SpreadResponseFormat(b)))]

\* else: openAIRequestBody and its fetch
Inline_openAICall(b) ==
    [url |-> "https://api.openai.com/v1/chat/completions", method |-> "POST",
     headers |-> << <<"Content-Type", ApplicationJson>>,
                    <<"Authorization", BearerPrefix \o ToStr(Get(b, K_apiKey))>> >>,
     body |-> JSONStringify(
                Obj(<< Prop(K_model, Get(b, K_model)),
                       Prop(K_messages, Get(b, K_messages)),
                       Prop(K_temperature, Get(b, K_temperature)),
                       Prop(K_max_completion_tokens, Get(b, K_max_completion_tokens)) >>
                    \o SpreadResponseFormat(b)))]

\* The earlier POST from its entry to the await of its fetch, or to the response
\* it returns without calling out.  isClaudeModel and isDeepseekModel call
\* model.startsWith, a TypeError when model is not a string.
Inline_POSTBegin(text) ==
    LET parsed == JSONParse(text) IN
    IF ~parsed.ok THEN Caught(Undefined, <<>>)
    ELSE LET b == parsed.val
             model == Get(b, K_model)
         IN
         IF PropThrows(b) THEN Caught(b, <<>>)
         ELSE IF MissingRequired(b)
         THEN Responded(b, NextResponseJson(ErrorEnvelope(MessageOnly(MissingRequiredFields)),
                                            StatusBadRequest), <<>>)
         ELSE IF TypeOf(model) # "str" THEN Caught(b, <<>>)
         ELSE IF StartsWith(ValueOf(model), ClaudePrefix)
         THEN IF ClaudeProvider_throws(b) THEN Caught(b, <<>>)
              ELSE Fetching(b, Inline_claudeCall(b))
         ELSE IF StartsWith(ValueOf(model), DeepseekPrefix)
         THEN Fetching(b, Inline_deepseekCall(b))
         ELSE Fetching(b, Inline_openAICall(b))

----------------------------------------------------------------------------
(* The page (component Home): the stored API keys in local storage. *)

\* localStorage: the item 'llm-playground-api-keys' (a JSON text) and the item
\* 'llm-playground-api-key' of the older page (a string); getItem of an absent
\* item is null.
EmptyStorage ==
    [keys |-> [present |-> FALSE, text |-> <<>>],
     legacy |-> [present |-> FALSE, text |-> <<>>]]

\* A StoredApiKey: id and createdAt are two readings of Date.now().
StoredApiKey(id, key, createdAt) ==
    Obj(<< Prop(<<"i", "d">>, Str(DigitsOf(id))), Prop(<<"k", "e", "y">>, Str(key)),
           Prop(<<"c", "r", "e", "a", "t", "e", "d", "A", "t">>, Num(DigitsOf(createdAt))) >>)

KeyOf(stored) == ValueOf(Get(stored, <<"k", "e", "y">>))
IdOf(stored) == ValueOf(Get(stored, <<"i", "d">>))

\* getStoredApiKeys: stored ? JSON.parse(stored) : []
getStoredApiKeys(ls) ==
    IF ls.keys.present /\ ls.keys.text # <<>> THEN ValueOf(JSONParse(ls.keys.text).val)
    ELSE <<>>

\* saveStoredApiKeys: setItem('llm-playground-api-keys', JSON.stringify(keys))
saveStoredApiKeys(ls, keys) ==
    [ls EXCEPT !.keys = [present |-> TRUE, text |-> JSONStringify(Arr(keys))]]

\* existing.some(stored => stored.key === key)
SomeKey(keys, key) == \E i \in 1..Len(keys) : KeyOf(keys[i]) = key

\* addApiKey; now and later are the two readings of Date.now().
addApiKey(ls, key, now, later) ==
    IF SomeKey(getStoredApiKeys(ls), key) THEN ls
    ELSE saveStoredApiKeys(ls, <<StoredApiKey(now, key, later)>> \o getStoredApiKeys(ls))

\* deleteApiKey: existing.filter(key => key.id !== id), saved
deleteApiKey(ls, id) ==
    saveStoredApiKeys(ls, SelectSeq(getStoredApiKeys(ls), LAMBDA stored : IdOf(stored) # id))

RECURSIVE Trim(_)
\* String.prototype.trim, for strings whose only white space is the space.
Trim(s) ==
    IF s = <<>> THEN s
    ELSE IF Head(s) = " " THEN Trim(Tail(s))
    ELSE IF s[Len(s)] = " " THEN Trim(SubSeq(s, 1, Len(s) - 1))
    ELSE s

----------------------------------------------------------------------------
(* Inputs: the requests a caller sends and the replies an upstream gives. *)

MaxMsgs == 2
MaxSuffix == 2
LongBodyLen == 250

SeqsUpTo(n, A) == UNION {[1..k -> A] : k \in 0..n}

Msg(role, content) == Obj(<< Prop(K_role, Str(role)), Prop(K_content, Str(content)) >>)
ResponseFormat(type) == Obj(<< Prop(K_type, Str(type)) >>)

RoleAssistant == <<"a", "s", "s", "i", "s", "t", "a", "n", "t">>
SysTerse == Msg(RoleSystem, <<"B", "e", " ", "t", "e", "r", "s", "e", ".">>)
SysEmpty == Msg(RoleSystem, <<>>)
UserHi == Msg(RoleUser, <<"H", "i">>)
UserU2 == Msg(RoleUser, <<"U", "2">>)
AssistantSure == Msg(RoleAssistant, <<"S", "u", "r", "e">>)

MsgAlphabet == {SysTerse, SysEmpty, UserHi, UserU2}
MessageLists ==
    SeqsUpTo(MaxMsgs, MsgAlphabet)
    \cup { <<SysTerse, UserHi, UserU2>>,
           <<UserU2, AssistantSure, UserHi>>,
           <<UserHi, SysEmpty, SysTerse>> }

ModelGpt == <<"g", "p", "t", "-", "4", ".", "1">>
ModelClaude == <<"c", "l", "a", "u", "d", "e", "-", "s", "o", "n", "n", "e", "t", "-", "4", "-", "2", "0", "2", "5", "0", "5", "1", "4">>
ModelDeepseek == <<"d", "e", "e", "p", "s", "e", "e", "k", "-", "c", "h", "a", "t">>
RoutedModels == {Str(ModelGpt), Str(ModelClaude), Str(ModelDeepseek)}

ResponseFormats ==
    {Undefined, Null, ResponseFormat(<<"t", "e", "x", "t">>), ResponseFormat(<<"j", "s", "o", "n", "_", "o", "b", "j", "e", "c", "t">>)}

\* The JSON body of a chat request, in the key order the page writes it.
ChatRequest(apiKey, model, messages, responseFormat, temperature, maxTokens) ==
    Obj(<< Prop(K_apiKey, apiKey), Prop(K_model, model), Prop(K_messages, messages),
           Prop(K_response_format, responseFormat), Prop(K_temperature, temperature),
           Prop(K_max_completion_tokens, maxTokens) >>)

\* Well-typed requests: every message list, model family and response format.
ShapedRequests ==
    {ChatRequest(Str(<<"k">>), m, Arr(l), f, Num(<<"0", ".", "5">>), Num(<<"1", "0", "0">>)) :
        m \in RoutedModels, l \in MessageLists, f \in ResponseFormats}

\* The page: formData, isClaudeModel and the body handleSubmit posts to /api/chat.
FormData(apiKey, model, systemPrompt, userPrompt, temperature, responseFormat, maxTokens) ==
    [apiKey |-> apiKey, model |-> model, systemPrompt |-> systemPrompt,
     userPrompt |-> userPrompt, temperature |-> temperature,
     responseFormat |-> responseFormat, maxTokens |-> maxTokens]

isClaudeModel(model) == StartsWith(model, ClaudePrefix)

handleSubmit_body(formData) ==
    Obj(<< Prop(K_apiKey, Str(formData.apiKey)),
           Prop(K_model, Str(formData.model)),
           Prop(K_messages, Arr(<< Msg(RoleSystem, formData.systemPrompt),
                                   Msg(RoleUser, formData.userPrompt) >>)) >>
        \o (IF isClaudeModel(formData.model) THEN <<>>
            ELSE << Prop(K_response_format,
                         Obj(<< Prop(K_type, Str(formData.responseFormat)) >>)) >>)
        \o << Prop(K_temperature, formData.temperature),
              Prop(K_max_completion_tokens, formData.maxTokens) >>)

\* The forms the page submits: each model family with each response format.
PageForms ==
    {FormData(<<"k">>, m, <<"B", "e", " ", "t", "e", "r", "s", "e", ".">>, <<"H", "i">>, Num(<<"0", ".", "5">>), f, Num(<<"1", "0", "0">>)) :
        m \in {ModelGpt, ModelClaude, ModelDeepseek}, f \in {<<"t", "e", "x", "t">>, <<"j", "s", "o", "n", "_", "o", "b", "j", "e", "c", "t">>}}

\* Requests with fields missing, falsy or of another type.
ApiKeyValues == {Str(<<"k">>), Str(<<"s", "k", "-", "A", " ", "1">>), Undefined, Str(<<>>), Num(<<"7">>)}
ModelValues == {Str(ModelGpt), Str(ModelClaude), Str(<<"c", "l", "a", "u", "d", "e">>), Undefined, Str(<<>>), Num(<<"5">>)}
MessagesValues == {Arr(<<SysTerse, UserHi>>), Undefined, Str(<<"H", "i">>), Arr(<<Null>>)}
TemperatureValues == {Num(<<"0", ".", "5">>), Undefined, Null, Num(<<"0">>), Str(<<"h", "o", "t">>)}
MaxTokensValues == {Num(<<"1", "0", "0">>), Undefined, Str(<<"m", "a", "n", "y">>)}
LooseRequests ==
    {ChatRequest(a, m, l, Undefined, t, n) :
        a \in ApiKeyValues, m \in ModelValues, l \in MessagesValues,
        t \in TemperatureValues, n \in MaxTokensValues}

\* Requests with temperatures on, inside and outside the range 0-2 of the page.
TemperatureRequests ==
    {ChatRequest(Str(<<"k">>), m, Arr(<<SysTerse, UserHi>>), Undefined, Num(t), Num(<<"1", "0", "0">>)) :
        m \in RoutedModels, t \in {<<"0">>, <<"2">>, <<"2", ".", "5">>, <<"-", "1">>, <<"1", "0", "0">>}}

\* Request bodies that are not a JSON object: empty, not JSON, null, a number, [].
OtherBodies ==
    { <<>>, <<C("x")>>, <<W(WordNull)>>, <<N(<<"5">>)>>, <<P("["), P("]")>> }

InboundTexts ==
    {JSONStringify(r) : r \in ShapedRequests \cup LooseRequests \cup TemperatureRequests}
    \cup {JSONStringify(handleSubmit_body(f)) : f \in PageForms}
    \cup OtherBodies

Chars(s) == [i \in 1..Len(s) |-> C(s[i])]

\* JSON values an upstream sends.
UpstreamValues ==
    { Obj(<< Prop(K_error, Obj(<< Prop(K_message, Str(<<"i", "n", "v", "a", "l", "i", "d", " ", "x", "-", "a", "p", "i", "-", "k", "e", "y">>)) >>)) >>),
      Obj(<< Prop(K_error, Str(<<"q", "u", "o", "t", "a">>)) >>),
      Obj(<< Prop(K_message, Str(<<"q", "u", "o", "t", "a">>)) >>),
      Null,
      Num(<<"5">>),
      Obj(<< Prop(<<"c", "h", "o", "i", "c", "e", "s">>, Arr(<< Obj(<< Prop(K_message,
                Obj(<< Prop(K_content, Str(<<"H", "e", "l", "l", "o">>)) >>)) >>) >>)) >>),
      Obj(<< Prop(K_content, Arr(<< Obj(<< Prop(<<"t", "e", "x", "t">>, Str(<<"H", "e", "l", "l", "o">>)) >>) >>)) >>) }

\* Bodies that are not JSON: empty, plain text, an HTML page, a long text, a cut-off object.
UpstreamRawTexts ==
    { <<>>,
      Chars(<<"u", "p", "s", "t", "r", "e", "a", "m", " ", "d", "o", "w", "n">>),
      Chars(<<"<", "!", "D", "O", "C", "T", "Y", "P", "E", " ", "h", "t", "m", "l", ">", "<", "h", "t", "m", "l", ">", "5", "0", "2", "<", "/", "h", "t", "m", "l", ">">>),
      [i \in 1..LongBodyLen |-> C("x")],
      <<P("{")>> }

StatusLines ==
    { <<200, <<"O", "K">>>>, <<201, <<"C", "r", "e", "a", "t", "e", "d">>>>, <<401, <<"U", "n", "a", "u", "t", "h", "o", "r", "i", "z", "e", "d">>>>, <<502, <<"B", "a", "d", " ", "G", "a", "t", "e", "w", "a", "y">>>>, <<429, <<>> >> }

Reply(line, text, readable, sent) ==
    [kind |-> "response", status |-> line[1], statusText |-> line[2], text |-> text,
     readable |-> readable, sent |-> sent]

UpstreamReplies ==
    {Reply(l, JSONStringify(x), TRUE, [ok |-> TRUE, val |-> x]) :
        l \in StatusLines, x \in UpstreamValues}
    \cup {Reply(l, t, TRUE, [ok |-> FALSE, val |-> Undefined]) :
        l \in StatusLines, t \in UpstreamRawTexts}
    \cup {Reply(l, <<>>, FALSE, [ok |-> FALSE, val |-> Undefined]) : l \in StatusLines}

ModelStems ==
    { <<>>, <<"c", "l", "a", "u", "d", "e">>, ClaudePrefix, <<"d", "e", "e", "p", "s", "e", "e", "k">>, DeepseekPrefix, ModelGpt, <<"C", "l", "a", "u", "d", "e", "-">> }
SuffixChars == {"-", "c", "3", "e"}
ModelStrings == {stem \o suf : stem \in ModelStems, suf \in SeqsUpTo(MaxSuffix, SuffixChars)}

----------------------------------------------------------------------------
(* The page (component Home): its state and its handlers. *)

defaultValues ==
    FormData(<<>>, ModelGpt, <<"Y", "o", "u", " ", "a", "r", "e", " ", "a", " ", "h", "e", "l", "p", "f", "u", "l", " ", "a", "s", "s", "i", "s", "t", "a", "n", "t", ".">>, <<"H", "e", "l", "l", "o", "!">>, Num(<<"1">>),
             <<"t", "e", "x", "t">>, Num(<<"2", "0", "4", "8">>))

\* The page before its mount effect has run: the useState initial values, an
\* empty local storage, no request sent.  clock is the last reading of Date.now(),
\* sent holds the body of the latest fetch('/api/chat').
InitialPage ==
    [mounted |-> FALSE, formData |-> defaultValues, output |-> Str(<<>>), error |-> Str(<<>>),
     isLoading |-> FALSE, storedApiKeys |-> <<>>, storage |-> EmptyStorage, clock |-> 1,
     sent |-> <<>>, inflight |-> 0]

isFormValid(formData) ==
    /\ Trim(formData.apiKey) # <<>>
    /\ Trim(formData.systemPrompt) # <<>>
    /\ Trim(formData.userPrompt) # <<>>

\* The mount effect: load the stored keys and migrate the key of the older page.
mountEffect(pg, now, later) ==
    LET keys == getStoredApiKeys(pg.storage)
        oldApiKey == pg.storage.legacy
    IN  IF oldApiKey.present /\ oldApiKey.text # <<>> /\ ~SomeKey(keys, oldApiKey.text)
        THEN LET added == addApiKey(pg.storage, oldApiKey.text, now, later) IN
             [pg EXCEPT !.mounted = TRUE,
                        !.storedApiKeys = getStoredApiKeys(added),
                        !.storage = [added EXCEPT !.legacy = EmptyStorage.legacy],
                        !.clock = later,
                        !.formData.apiKey = IF pg.formData.apiKey = <<>> THEN oldApiKey.text
                                            ELSE pg.formData.apiKey]
        ELSE [pg EXCEPT !.mounted = TRUE, !.storedApiKeys = keys]

\* A variant of handleDeleteApiKey that clears the field only when the deleted
\* entry held the field's value.
handleDeleteApiKey_OnlyOwnKey(pg, id) ==
    LET deleted == SelectSeq(getStoredApiKeys(pg.storage), LAMBDA stored : IdOf(stored) = id)
        updated == deleteApiKey(pg.storage, id)
    IN  [pg EXCEPT !.storage = updated,
                   !.storedApiKeys = getStoredApiKeys(updated),
                   !.formData.apiKey = IF SomeKey(deleted, pg.formData.apiKey) THEN <<>>
                                       ELSE pg.formData.apiKey]

\* handleDeleteApiKey: delete, reload the list, and clear the field when its
\* value is not the key of a remaining entry.
handleDeleteApiKey(pg, id) ==
    LET updated == deleteApiKey(pg.storage, id) IN
    [pg EXCEPT !.storage = updated,
               !.storedApiKeys = getStoredApiKeys(updated),
               !.formData.apiKey = IF ~SomeKey(getStoredApiKeys(updated), pg.formData.apiKey)
                                   THEN <<>> ELSE pg.formData.apiKey]

\* handleSubmit up to the await of fetch('/api/chat').
handleSubmit(pg, now, later) ==
    LET key == Trim(pg.formData.apiKey)
        isNew == key # <<>> /\ ~SomeKey(getStoredApiKeys(pg.storage), key)
        added == IF key # <<>> THEN addApiKey(pg.storage, key, now, later) ELSE pg.storage
    IN  [pg EXCEPT !.isLoading = TRUE, !.error = Str(<<>>), !.output = Str(<<>>),
                   !.storage = added,
                   !.storedApiKeys = IF key # <<>> THEN getStoredApiKeys(added)
                                     ELSE pg.storedApiKeys,
                   !.clock = IF isNew THEN later ELSE pg.clock,
                   !.sent = <<JSONStringify(handleSubmit_body(pg.formData))>>,
                   !.inflight = pg.inflight + 1]

RECURSIVE PathGet(_, _)
\* A member chain such as data.choices[0].message.content: a step is a key or
\* an index, and a step on undefined or null throws a TypeError.
PathGet(x, path) ==
    IF path = <<>> THEN [throws |-> FALSE, val |-> x]
    ELSE IF PropThrows(x) THEN [throws |-> TRUE, val |-> Undefined]
    ELSE IF Head(path)[1] = "key" THEN PathGet(Get(x, Head(path)[2]), Tail(path))
    ELSE IF TypeOf(x) = "arr" /\ Head(path)[2] < Len(ValueOf(x))
    THEN PathGet(ValueOf(x)[Head(path)[2] + 1], Tail(path))
    ELSE PathGet(Undefined, Tail(path))

\* The message of the error a JavaScript engine throws (the text is the engine's).
SyntaxErrorMessage == <<"U", "n", "e", "x", "p", "e", "c", "t", "e", "d", " ", "t", "o", "k", "e", "n">>
TypeErrorMessage == <<"C", "a", "n", "n", "o", "t", " ", "r", "e", "a", "d", " ", "p", "r", "o", "p", "e", "r", "t", "i", "e", "s">>
FailedToFetch == <<"F", "a", "i", "l", "e", "d", " ", "t", "o", " ", "f", "e", "t", "c", "h">>

\* What handleSubmit sets after the await: [output, error], one of them set.
\* The try block ends with setOutput, the catch sets the error's message.
SubmitResult(reply) ==
    LET failed(message) == [output |-> Str(<<>>), error |-> Str(message)]
        parsed == JSONParse(reply.text)
        data == parsed.val
    IN  IF reply.kind = "rejected" THEN failed(FailedToFetch)
        ELSE IF ~parsed.ok THEN failed(SyntaxErrorMessage)        \* await response.json()
        ELSE IF ~ResponseOk(reply)
        THEN IF PropThrows(data) THEN failed(TypeErrorMessage)    \* errorData.error of null
             ELSE LET message == IF PropThrows(Get(data, K_error)) THEN Undefined
                                 ELSE Get(Get(data, K_error), K_message)
                  IN  failed(IF Truthy(message) THEN ToStr(message) ELSE HttpMessage(reply))
        ELSE IF TypeOf(data) \notin {"obj", "arr"} THEN failed(TypeErrorMessage)  \* 'choices' in data
        ELSE LET content ==
                    IF HasOwn(data, <<"c", "h", "o", "i", "c", "e", "s">>)
                    THEN PathGet(data, << <<"key", <<"c", "h", "o", "i", "c", "e", "s">>>>, <<"index", 0>>,
                                          <<"key", K_message>>, <<"key", K_content>> >>)
                    ELSE PathGet(data, << <<"key", K_content>>, <<"index", 0>>,
                                          <<"key", <<"t", "e", "x", "t">>>> >>)
             IN  IF content.throws THEN failed(TypeErrorMessage)
                 ELSE [output |-> content.val, error |-> Str(<<>>)]

\* A variant of the end of handleSubmit without the finally: isLoading is reset
\* only when the try block ran to its end.
handleSubmitSettled_NoFinally(pg, reply) ==
    LET r == SubmitResult(reply) IN
    [pg EXCEPT !.output = r.output, !.error = r.error,
               !.isLoading = r.error # Str(<<>>), !.inflight = pg.inflight - 1]

\* A variant of the end of handleSubmit whose try block shows the raw body
\* before it reads it.
handleSubmitSettled_RawOutputFirst(pg, reply) ==
    LET r == SubmitResult(reply) IN
    [pg EXCEPT !.output = IF r.error # Str(<<>>) /\ reply.kind = "response"
                          THEN Str(TextChars(reply.text)) ELSE r.output,
               !.error = r.error, !.isLoading = FALSE, !.inflight = pg.inflight - 1]

\* handleSubmit from the settling of the fetch to its end (finally included).
handleSubmitSettled(pg, reply) ==
    LET r == SubmitResult(reply) IN
    [pg EXCEPT !.output = r.output, !.error = r.error,
               !.isLoading = FALSE, !.inflight = pg.inflight - 1]

\* handleReset
handleReset(pg) ==
    [pg EXCEPT !.formData = [defaultValues EXCEPT !.apiKey = <<>>],
               !.output = Str(<<>>), !.error = Str(<<>>)]

----------------------------------------------------------------------------
(* The relay: one invocation of POST. *)

MaxCalls == 2
Calls == 1..MaxCalls

\* An invocation of POST that has not started.
IdleCall ==
    [pc |-> "idle", request |-> <<>>, body |-> Undefined, outbound |-> <<>>,
     upstream |-> NoReply, response |-> NoResponse]

NoLookup == [model |-> Undefined, list |-> <<>>, registered |-> <<>>,
             result |-> [throws |-> FALSE, provider |-> "none"]]

Init ==
    /\ pc = "idle"
    /\ request = <<>>
    /\ body = Undefined
    /\ providers = InitialProviders
    /\ outbound = <<>>
    /\ upstream = NoReply
    /\ response = NoResponse
    /\ log = <<>>
    /\ lookup = NoLookup
    /\ calls = [i \in Calls |-> IdleCall]
    /\ registered = <<>>
    /\ page = InitialPage

\* A request arrives and POST runs to its first await or to its return.
POSTStart(text) ==
    /\ pc = "idle"
    /\ request' = text
    /\ LET o == POSTBegin(text) IN
        /\ body' = o.body
        /\ pc' = IF o.kind = "fetch" THEN "awaiting" ELSE "done"
        /\ outbound' = IF o.kind = "fetch" THEN Append(outbound, o.call) ELSE outbound
        /\ response' = o.response
        /\ log' = log \o o.log
    /\ UNCHANGED <<providers, upstream, lookup, calls, registered, page>>

\* The fetch resolves with the upstream's reply and POST runs to its return.
UpstreamRespond(reply) ==
    /\ pc = "awaiting"
    /\ upstream' = reply
    /\ LET o == POSTResume(body, reply) IN
        /\ response' = o.response
        /\ log' = log \o o.log
    /\ pc' = "done"
    /\ UNCHANGED <<request, body, providers, outbound, lookup, calls, registered, page>>

\* The fetch rejects (the upstream is unreachable): the outer catch answers.
FetchReject ==
    /\ pc = "awaiting"
    /\ upstream' = [NoReply EXCEPT !.kind = "rejected"]
    /\ response' = Caught(body, <<>>).response
    /\ log' = log \o Caught(body, <<>>).log
    /\ pc' = "done"
    /\ UNCHANGED <<request, body, providers, outbound, lookup, calls, registered, page>>

Next ==
    \/ \E text \in InboundTexts : POSTStart(text)
    \/ \E reply \in UpstreamReplies : UpstreamRespond(reply)
    \/ FetchReject

Spec == Init /\ [][Next]_vars

----------------------------------------------------------------------------
(* The provider registry on its own: getProvider applied to model strings. *)

GetProviderCall(m) ==
    /\ lookup' = [model |-> m, list |-> providers, registered |-> registered,
                  result |-> getProvider(m)]
    /\ UNCHANGED <<pc, request, body, providers, outbound, upstream, response, log, calls, registered, page>>

NextFactory == \E m \in ModelStrings : GetProviderCall(Str(m))

SpecFactory == Init /\ [][NextFactory]_vars

----------------------------------------------------------------------------
(* The provider registry with registrations: registerProvider and getProvider
   called in any order. *)

MaxRegistered == 3

\* The providers a caller registers: instances of a built-in class and of its own.
RegisterableProviders == {"ClaudeProvider"} \cup CustomProviders

RegistryModels == ModelStems \cup {ModelClaude, ModelDeepseek}

RegisterProvider(p) ==
    /\ Len(providers) < Len(InitialProviders) + MaxRegistered
    /\ providers' = registerProvider(providers, p)
    /\ registered' = Append(registered, p)
    /\ UNCHANGED <<pc, request, body, outbound, upstream, response, log, lookup, calls, page>>

NextRegistry ==
    \/ \E p \in RegisterableProviders : RegisterProvider(p)
    \/ \E m \in RegistryModels : GetProviderCall(Str(m))

SpecRegistry == Init /\ [][NextRegistry]_vars

----------------------------------------------------------------------------
(* Concurrent invocations of POST on one server.  An invocation runs without
   interruption between its awaits; the steps of different invocations
   interleave freely.  The provider list and the console are the only things
   the invocations have in common. *)

ConcurrentTexts ==
    { JSONStringify(handleSubmit_body(f)) : f \in PageForms }
    \cup { JSONStringify(ChatRequest(Str(<<"s", "k", "-", "A", " ", "1">>), Str(ModelGpt), Arr(<<UserU2>>),
                                     Undefined, Num(<<"0">>), Undefined)),
           JSONStringify(ChatRequest(Str(<<"k">>), Num(<<"5">>), Arr(<<UserHi>>),
                                     Undefined, Num(<<"0", ".", "5">>), Num(<<"1", "0", "0">>))),
           <<C("x")>> }

ConcurrentReplies ==
    { Reply(<<200, <<"O", "K">>>>, JSONStringify(x), TRUE, [ok |-> TRUE, val |-> x]) :
        x \in { Obj(<< Prop(K_content, Arr(<< Obj(<< Prop(<<"t", "e", "x", "t">>, Str(<<"H", "e", "l", "l", "o">>)) >>) >>)) >>) } }
    \cup { Reply(<<401, <<"U", "n", "a", "u", "t", "h", "o", "r", "i", "z", "e", "d">>>>, JSONStringify(x), TRUE, [ok |-> TRUE, val |-> x]) :
        x \in { Obj(<< Prop(K_error, Obj(<< Prop(K_message, Str(<<"i", "n", "v", "a", "l", "i", "d", " ", "x", "-", "a", "p", "i", "-", "k", "e", "y">>)) >>)) >>) } }
    \cup { Reply(<<502, <<"B", "a", "d", " ", "G", "a", "t", "e", "w", "a", "y">>>>, Chars(<<"<", "!", "D", "O", "C", "T", "Y", "P", "E", " ", "h", "t", "m", "l", ">", "<", "h", "t", "m", "l", ">", "5", "0", "2", "<", "/", "h", "t", "m", "l", ">">>), TRUE,
                 [ok |-> FALSE, val |-> Undefined]),
           Reply(<<200, <<"O", "K">>>>, <<>>, TRUE, [ok |-> FALSE, val |-> Undefined]) }

\* A variant of the start of an invocation in which a dispatch rotates the
\* provider list, as a round-robin registry would.
CallStart_RotatesProviders(i, text) ==
    /\ calls[i].pc = "idle"
    /\ LET o == POSTBegin(text) IN
        /\ calls' = [calls EXCEPT ![i] =
                        [pc |-> IF o.kind = "fetch" THEN "awaiting" ELSE "done",
                         request |-> text,
                         body |-> o.body,
                         outbound |-> IF o.kind = "fetch" THEN <<o.call>> ELSE <<>>,
                         upstream |-> NoReply,
                         response |-> o.response]]
        /\ log' = log \o o.log
        /\ providers' = IF o.kind = "fetch" THEN Tail(providers) \o <<Head(providers)>>
                        ELSE providers
    /\ UNCHANGED <<pc, request, body, outbound, upstream, response, lookup, registered, page>>

\* Invocation i starts and runs to its first await or to its return.
CallStart(i, text) ==
    /\ calls[i].pc = "idle"
    /\ LET o == POSTBegin(text) IN
        /\ calls' = [calls EXCEPT ![i] =
                        [pc |-> IF o.kind = "fetch" THEN "awaiting" ELSE "done",
                         request |-> text,
                         body |-> o.body,
                         outbound |-> IF o.kind = "fetch" THEN <<o.call>> ELSE <<>>,
                         upstream |-> NoReply,
                         response |-> o.response]]
        /\ log' = log \o o.log
    /\ UNCHANGED <<pc, request, body, providers, outbound, upstream, response, lookup, registered, page>>

\* The fetch of invocation i resolves and the invocation runs to its return.
CallRespond(i, reply) ==
    /\ calls[i].pc = "awaiting"
    /\ LET o == POSTResume(calls[i].body, reply) IN
        /\ calls' = [calls EXCEPT ![i].pc = "done", ![i].upstream = reply,
                                  ![i].response = o.response]
        /\ log' = log \o o.log
    /\ UNCHANGED <<pc, request, body, providers, outbound, upstream, response, lookup, registered, page>>

\* The fetch of invocation i rejects and the outer catch answers.
CallReject(i) ==
    /\ calls[i].pc = "awaiting"
    /\ LET o == Caught(calls[i].body, <<>>) IN
        /\ calls' = [calls EXCEPT ![i].pc = "done",
                                  ![i].upstream = [NoReply EXCEPT !.kind = "rejected"],
                                  ![i].response = o.response]
        /\ log' = log \o o.log
    /\ UNCHANGED <<pc, request, body, providers, outbound, upstream, response, lookup, registered, page>>

NextConcurrent ==
    \/ \E i \in Calls, text \in ConcurrentTexts : CallStart(i, text)
    \/ \E i \in Calls, reply \in ConcurrentReplies : CallRespond(i, reply)
    \/ \E i \in Calls : CallReject(i)

SpecConcurrent == Init /\ [][NextConcurrent]_vars

----------------------------------------------------------------------------
(* The two revisions of POST side by side: one request given to both. *)

StartedCall(text, o) ==
    [pc |-> IF o.kind = "fetch" THEN "awaiting" ELSE "done",
     request |-> text,
     body |-> o.body,
     outbound |-> IF o.kind = "fetch" THEN <<o.call>> ELSE <<>>,
     upstream |-> NoReply,
     response |-> o.response]

\* Invocation 1 runs the Strategy revision and invocation 2 the earlier one.
RevisionsStart(text) ==
    /\ \A i \in Calls : calls[i].pc = "idle"
    /\ calls' = [i \in Calls |->
                    IF i = 1 THEN StartedCall(text, POSTBegin(text))
                    ELSE IF i = 2 THEN StartedCall(text, Inline_POSTBegin(text))
                    ELSE calls[i]]
    /\ log' = log \o POSTBegin(text).log \o Inline_POSTBegin(text).log
    /\ UNCHANGED <<pc, request, body, providers, outbound, upstream, response, lookup, registered, page>>

NextRevisions == \E text \in InboundTexts : RevisionsStart(text)

SpecRevisions == Init /\ [][NextRevisions]_vars

----------------------------------------------------------------------------
(* The page in a browser: the user's actions, the settling of the request, a
   reload, and the older page storing its key while this page is not open. *)

MaxClock == 2

\* The keys the user types: one as it is stored and one with a trailing space.
PageKeys == {<<"a">>, <<"b", " ">>}

\* Two successive readings of Date.now(): the clock does not go back and may
\* stand still between two readings.
Readings(pg) ==
    {<<now, later>> \in (pg.clock..MaxClock) \X (pg.clock..MaxClock) :
        now <= pg.clock + 1 /\ now <= later /\ later <= now + 1}

\* What the relay (or the network) answers to the page.
PageReplies ==
    {Reply(<<200, <<"O", "K">>>>, JSONStringify(x), TRUE, [ok |-> TRUE, val |-> x]) :
        x \in { Obj(<< Prop(<<"c", "h", "o", "i", "c", "e", "s">>, Arr(<< Obj(<< Prop(K_message,
                        Obj(<< Prop(K_content, Str(<<"H", "e", "l", "l", "o">>)) >>)) >>) >>)) >>),
                Obj(<< Prop(K_content, Arr(<< Obj(<< Prop(<<"t", "e", "x", "t">>, Str(<<"H", "e", "l", "l", "o">>)) >>) >>)) >>),
                Obj(<< Prop(<<"c", "h", "o", "i", "c", "e", "s">>, Arr(<<>>)) >>) }}
    \cup {Reply(<<401, <<"U", "n", "a", "u", "t", "h", "o", "r", "i", "z", "e", "d">>>>, JSONStringify(x), TRUE, [ok |-> TRUE, val |-> x]) :
        x \in { Obj(<< Prop(K_error, Obj(<< Prop(K_message, Str(<<"i", "n", "v", "a", "l", "i", "d", " ", "x", "-", "a", "p", "i", "-", "k", "e", "y">>)) >>)) >>),
                Obj(<< Prop(K_error, Str(<<"q", "u", "o", "t", "a">>)) >>) }}
    \cup {Reply(<<500, <<"I", "n", "t", "e", "r", "n", "a", "l", " ", "S", "e", "r", "v", "e", "r", " ", "E", "r", "r", "o", "r">>>>, Chars(<<"<", "!", "D", "O", "C", "T", "Y", "P", "E", " ", "h", "t", "m", "l", ">">>), TRUE,
                [ok |-> FALSE, val |-> Undefined]),
          [NoReply EXCEPT !.kind = "rejected"]}

\* The older page (its effect on formData.apiKey) stores a non-empty key.
LegacySave(key) ==
    /\ ~page.mounted
    /\ page' = [page EXCEPT !.storage.legacy = [present |-> TRUE, text |-> key]]
    /\ UNCHANGED <<pc, request, body, providers, outbound, upstream, response, log, lookup, calls, registered>>

PageMount ==
    /\ ~page.mounted
    /\ \E r \in Readings(page) : page' = mountEffect(page, r[1], r[2])
    /\ UNCHANGED <<pc, request, body, providers, outbound, upstream, response, log, lookup, calls, registered>>

\* The page is reloaded: its state is new, local storage stays, and a request
\* in flight is no longer awaited.
PageReload ==
    /\ page.mounted
    /\ page' = [InitialPage EXCEPT !.storage = page.storage, !.clock = page.clock,
                                   !.sent = page.sent]
    /\ UNCHANGED <<pc, request, body, providers, outbound, upstream, response, log, lookup, calls, registered>>

\* handleApiKeyInputChange
ApiKeyInputChange(value) ==
    /\ page.mounted
    /\ page' = [page EXCEPT !.formData.apiKey = value]
    /\ UNCHANGED <<pc, request, body, providers, outbound, upstream, response, log, lookup, calls, registered>>

\* handleApiKeySelect on an entry of the dropdown
ApiKeySelect(i) ==
    /\ page.mounted
    /\ page' = [page EXCEPT !.formData.apiKey = KeyOf(page.storedApiKeys[i])]
    /\ UNCHANGED <<pc, request, body, providers, outbound, upstream, response, log, lookup, calls, registered>>

\* A click on the delete button of an entry of the dropdown
DeleteApiKeyClick(i) ==
    /\ page.mounted
    /\ page' = handleDeleteApiKey(page, IdOf(page.storedApiKeys[i]))
    /\ UNCHANGED <<pc, request, body, providers, outbound, upstream, response, log, lookup, calls, registered>>

\* A click on Submit, which is disabled when !isFormValid() || isLoading
SubmitClick ==
    /\ page.mounted
    /\ isFormValid(page.formData) /\ ~page.isLoading
    /\ \E r \in Readings(page) : page' = handleSubmit(page, r[1], r[2])
    /\ UNCHANGED <<pc, request, body, providers, outbound, upstream, response, log, lookup, calls, registered>>

\* The fetch of handleSubmit settles: it resolves with a reply or rejects.
SubmitSettle(reply) ==
    /\ page.inflight > 0
    /\ page' = handleSubmitSettled(page, reply)
    /\ UNCHANGED <<pc, request, body, providers, outbound, upstream, response, log, lookup, calls, registered>>

\* A click on Reset, which is disabled when isLoading
ResetClick ==
    /\ page.mounted
    /\ ~page.isLoading
    /\ page' = handleReset(page)
    /\ UNCHANGED <<pc, request, body, providers, outbound, upstream, response, log, lookup, calls, registered>>

PageSettles == \E reply \in PageReplies : SubmitSettle(reply)

NextPage ==
    \/ \E key \in PageKeys : LegacySave(key)
    \/ PageMount
    \/ PageReload
    \/ \E value \in PageKeys \cup {<<>>} : ApiKeyInputChange(value)
    \/ \E i \in 1..Len(page.storedApiKeys) : ApiKeySelect(i)
    \/ \E i \in 1..Len(page.storedApiKeys) : DeleteApiKeyClick(i)
    \/ SubmitClick
    \/ PageSettles
    \/ ResetClick

SpecPage == Init /\ [][NextPage]_vars

\* The fetch of a submission settles in the end: it resolves or it rejects.
SpecPageLive == SpecPage /\ WF_vars(PageSettles)

----------------------------------------------------------------------------
(* Properties. *)

AnthropicUrl == "https://api.anthropic.com/v1/messages"
DeepseekUrl == "https://api.deepseek.com/chat/completions"
OpenAIUrl == "https://api.openai.com/v1/chat/completions"

\* s begins with prefix, character by character.
HasPrefix(s, prefix) ==
    Len(s) >= Len(prefix) /\ \A i \in 1..Len(prefix) : s[i] = prefix[i]

\* What the caller sent, and what the relay sent out.
Sent == JSONParse(request)
SentField(key) == Get(Sent.val, key)
RequiredKeys == {K_apiKey, K_model, K_messages, K_temperature, K_max_completion_tokens}
RoutedTo(url) == outbound # <<>> /\ outbound[1].url = url
CallBody == JSONParse(outbound[1].body).val

\* The text {"error":{"message":"..."}}.
ErrorText(chars) ==
    << P("{"), S(K_error), P(":"), P("{"), S(K_message), P(":"), S(chars), P("}"), P("}") >>

Replied == pc = "done" /\ upstream.kind = "response"
RawBody == TextChars(upstream.text)
ResponseJson == JSONParse(response.body).val

\* C1: getProvider picks the Anthropic adapter for a model that starts with
\* "claude-", the Deepseek adapter for one that starts with "deepseek-", and
\* the OpenAI adapter for every other string, the empty string included.
C1_ProviderSelection ==
    TypeOf(lookup.model) = "str" =>
        /\ ~lookup.result.throws
        /\ lookup.result.provider =
              IF HasPrefix(ValueOf(lookup.model), ClaudePrefix) THEN "ClaudeProvider"
              ELSE IF HasPrefix(ValueOf(lookup.model), DeepseekPrefix) THEN "DeepseekProvider"
              ELSE "OpenAIProvider"

\* The empty model string has been looked up and went to the OpenAI adapter.
C1_Witness ==
    lookup.model = Str(<<>>) /\ lookup.result.provider = "OpenAIProvider"

WrongType(key, type) == HasOwn(Sent.val, key) /\ TypeOf(SentField(key)) # type

\* C3: a request in which one of the five required fields is present with the
\* wrong primitive type is answered 400 and no fetch is issued.
C3_WrongTypeRejected ==
    (pc # "idle" /\ Sent.ok /\ TypeOf(Sent.val) = "obj"
        /\ (\/ WrongType(K_apiKey, "str")
            \/ WrongType(K_model, "str")
            \/ WrongType(K_messages, "arr")
            \/ WrongType(K_temperature, "num")
            \/ WrongType(K_max_completion_tokens, "num")))
    => /\ pc = "done"
       /\ response.status = 400
       /\ outbound = <<>>

SentMessages == ValueOf(SentField(K_messages))
HasRole(msg, role) == HasOwn(msg, K_role) /\ Get(msg, K_role) = Str(role)
SystemPositions == {i \in 1..Len(SentMessages) : HasRole(SentMessages[i], RoleSystem)}
FirstSystem == SentMessages[CHOOSE i \in SystemPositions : \A j \in SystemPositions : i <= j]
RECURSIVE UsersOf(_)
UsersOf(msgs) ==
    IF msgs = <<>> THEN <<>>
    ELSE (IF HasRole(msgs[1], RoleUser) THEN <<msgs[1]>> ELSE <<>>) \o UsersOf(Tail(msgs))

\* C4: for a request routed to the Anthropic adapter, the outbound system field
\* is the content of the first system message, it is the default text exactly
\* when there is no system message, and the outbound messages are the user
\* messages in their order.
C4_AnthropicSystemAndUsers ==
    RoutedTo(AnthropicUrl) =>
        /\ SystemPositions # {} => Get(CallBody, K_system) = Get(FirstSystem, K_content)
        /\ Get(CallBody, K_system) = Str(DefaultSystem) <=> SystemPositions = {}
        /\ Get(CallBody, K_messages) = Arr(UsersOf(SentMessages))

\* C5: the body sent to the Anthropic adapter has no response_format member,
\* whatever response_format the caller supplied.
C5_AnthropicNoResponseFormat ==
    RoutedTo(AnthropicUrl) =>
        /\ ~HasOwn(CallBody, K_response_format)
        /\ \A i \in 1..Len(outbound[1].body) : outbound[1].body[i] # S(K_response_format)

\* A request with response_format {type: json_object} has gone to Anthropic.
C5_Witness ==
    /\ RoutedTo(AnthropicUrl)
    /\ SentField(K_response_format) = ResponseFormat(<<"j", "s", "o", "n", "_", "o", "b", "j", "e", "c", "t">>)

\* The caller supplied a response format: the member is present and not null.
SuppliedFormat ==
    HasOwn(Sent.val, K_response_format) /\ TypeOf(SentField(K_response_format)) # "null"

C7_SuccessPassThrough ==
    (Replied /\ ResponseOk(upstream) /\ upstream.readable /\ upstream.sent.ok) =>
        /\ response.status = 200
        /\ JSONParse(response.body) = [ok |-> TRUE, val |-> upstream.sent.val]

\* Anthropic answered 201 with a content list and the relay answered 200 with it.
C7_Witness ==
    /\ Replied
    /\ RoutedTo(AnthropicUrl)
    /\ upstream.status = 201
    /\ upstream.sent.ok /\ HasOwn(upstream.sent.val, K_content)
    /\ response.status = 200
    /\ HasOwn(ResponseJson, K_content)

\* C8: when the upstream answers a non-ok status, whatever its body, the relay
\* answers with the same status.
C8_ErrorStatusRelayed ==
    (Replied /\ ~ResponseOk(upstream)) => response.status = upstream.status

NonJsonError == Replied /\ ~ResponseOk(upstream) /\ upstream.readable /\ ~upstream.sent.ok
ResponseError == Get(ResponseJson, K_error)
NothingThrown == \A i \in 1..Len(log) : log[i] # "API Error:"

\* pat occurs in s, character by character.
Occurs(pat, s) ==
    \E i \in 1..(Len(s) - Len(pat) + 1) : \A j \in 1..Len(pat) : s[i + j - 1] = pat[j]

\* C9 as stated: for a non-ok status with a body that is not JSON, an HTML page
\* included, the relay does not throw and answers an error whose message carries
\* the status and status text and whose details are a cut-off excerpt of the body.
C9_DetailsAreExcerpt ==
    NonJsonError =>
        LET raw == RawBody
            err == ResponseError
        IN  /\ NothingThrown
            /\ Get(err, K_message)
                  = Str(HttpPrefix \o DigitsOf(upstream.status) \o ColonSpace \o upstream.statusText)
            /\ HasOwn(err, K_details)
            /\ Len(ValueOf(Get(err, K_details))) <= DetailsLimit
            /\ Occurs(ValueOf(Get(err, K_details)), raw)

\* C9 as amended: for a non-ok status with a body that is not JSON, the relay does
\* not throw and answers, with the upstream's status, an error whose message is
\* "HTTP <status>: <statusText>" and whose details are the fixed text
\* "Received HTML error page instead of JSON" when the body contains "<!DOCTYPE"
\* and the first 200 characters of the body otherwise.
C9_DetailsExcerptOrHtmlNotice ==
    NonJsonError =>
        LET raw == RawBody
            err == ResponseError
        IN  /\ NothingThrown
            /\ response.status = upstream.status
            /\ Get(err, K_message)
                  = Str(HttpPrefix \o DigitsOf(upstream.status) \o ColonSpace \o upstream.statusText)
            /\ HasOwn(err, K_details)
            /\ ValueOf(Get(err, K_details)) =
                  IF Occurs(DoctypeMarker, raw) THEN ReceivedHTML
                  ELSE IF Len(raw) <= DetailsLimit THEN raw
                  ELSE [i \in 1..DetailsLimit |-> raw[i]]

\* A 502 with an HTML page has been answered with the fixed notice as details.
C9_Witness ==
    /\ NonJsonError
    /\ upstream.status = 502
    /\ HasPrefix(RawBody, DoctypeMarker)
    /\ response.status = 502
    /\ ValueOf(Get(ResponseError, K_details)) = ReceivedHTML

\* C10: when the upstream answers an ok status with a body that cannot be read
\* as JSON, the empty body included, the relay answers 502 with
\* {"error":{"message":"Invalid JSON response from LLM provider"}}.
C10_BadSuccessBodyIs502 ==
    (Replied /\ ResponseOk(upstream) /\ ~upstream.sent.ok) =>
        response = [status |-> 502, body |-> ErrorText(InvalidJSONResponse)]

\* A 200 with an empty body has been answered 502.
C10_Witness ==
    /\ Replied
    /\ upstream.status = 200 /\ upstream.readable /\ upstream.text = <<>>
    /\ response.status = 502

Rejected == pc = "done" /\ upstream.kind = "rejected"

\* C11: when the fetch rejects, the relay answers 500 with
\* {"error":{"message":"Internal server error"}} and the one call it issued
\* stays the only one.
C11_FetchRejectIs500 ==
    Rejected =>
        /\ response = [status |-> 500, body |-> ErrorText(InternalServerError)]
        /\ Len(outbound) = 1

\* The call to Deepseek was rejected and the relay answered 500.
C11_Witness ==
    /\ Rejected
    /\ RoutedTo(DeepseekUrl)
    /\ response.status = 500
    /\ Len(outbound) = 1

\* The validation of POST lets the request through.
ValidationPasses == Sent.ok /\ ~PropThrows(Sent.val) /\ ~MissingRequired(Sent.val)

\* C12: one invocation issues exactly one fetch when validation passes and none
\* when it fails, at every point of the invocation and whatever the upstream did.
C12_ExactlyOneCall ==
    pc # "idle" => Len(outbound) = IF ValidationPasses THEN 1 ELSE 0

Failure == pc = "done" /\ response.status \notin 200..299

\* The shape {error: {message: string, details?: string}}.
IsEnvelope(x) ==
    /\ HasOwn(x, K_error)
    /\ TypeOf(Get(x, K_error)) = "obj"
    /\ TypeOf(Get(Get(x, K_error), K_message)) = "str"
    /\ HasOwn(Get(x, K_error), K_details) => TypeOf(Get(Get(x, K_error), K_details)) = "str"

\* C13: every invocation that has ended returned a response, and every response
\* with a non-success status has a body of the shape
\* {error: {message: string, details?: string}}, also when the upstream's error
\* body has an error member that is not an object.
C13_ErrorEnvelopeAlways ==
    pc = "done" =>
        /\ response # NoResponse
        /\ response.status \notin 200..299 =>
              JSONParse(response.body).ok /\ IsEnvelope(ResponseJson)

\* C14: after any sequence of registerProvider calls the OpenAI adapter is the
\* last element of the provider list, and getProvider has found a provider for
\* every model string it was given.
C14_FallbackStaysLast ==
    /\ providers # <<>>
    /\ providers[Len(providers)] = "OpenAIProvider"
    /\ ~lookup.result.throws

\* After three registrations, one of them of a provider that accepts every
\* model, a model with no prefix was looked up in the list of six.
C14_Witness ==
    /\ Len(lookup.list) = Len(InitialProviders) + 3
    /\ lookup.list[Len(lookup.list)] = "OpenAIProvider"
    /\ \E i \in 1..Len(lookup.list) : lookup.list[i] = "NoneProvider"
    /\ lookup.model = Str(<<>>)
    /\ lookup.result.provider = "OpenAIProvider"

HeadersOf(call) == {call.headers[i] : i \in 1..Len(call.headers)}
HeaderNames(call) == {call.headers[i][1] : i \in 1..Len(call.headers)}
SentKey == ValueOf(SentField(K_apiKey))
SentModel == ValueOf(SentField(K_model))

\* C15: the one outbound call goes to the URL of the adapter the model selects
\* and carries the caller's key unchanged in that adapter's credential header:
\* Authorization: Bearer <key> for api.openai.com/v1/chat/completions and
\* api.deepseek.com/chat/completions; x-api-key: <key> with anthropic-version
\* 2023-06-01 and no Authorization header for api.anthropic.com/v1/messages.
C15_UrlAndCredential ==
    (outbound # <<>> /\ TypeOf(SentField(K_apiKey)) = "str") =>
        /\ Len(outbound) = 1
        /\ outbound[1].method = "POST"
        /\ outbound[1].url =
              IF HasPrefix(SentModel, <<"c", "l", "a", "u", "d", "e", "-">>) THEN AnthropicUrl
              ELSE IF HasPrefix(SentModel, <<"d", "e", "e", "p", "s", "e", "e", "k", "-">>) THEN DeepseekUrl
              ELSE OpenAIUrl
        /\ outbound[1].url = OpenAIUrl =>
              HeadersOf(outbound[1]) =
                  { <<"Content-Type", <<"a", "p", "p", "l", "i", "c", "a", "t", "i", "o", "n", "/", "j", "s", "o", "n">>>>,
                    <<"Authorization", <<"B", "e", "a", "r", "e", "r", " ">> \o SentKey>> }
        /\ outbound[1].url = DeepseekUrl =>
              HeadersOf(outbound[1]) =
                  { <<"Content-Type", <<"a", "p", "p", "l", "i", "c", "a", "t", "i", "o", "n", "/", "j", "s", "o", "n">>>>,
                    <<"Accept", <<"a", "p", "p", "l", "i", "c", "a", "t", "i", "o", "n", "/", "j", "s", "o", "n">>>>,
                    <<"Authorization", <<"B", "e", "a", "r", "e", "r", " ">> \o SentKey>> }
        /\ outbound[1].url = AnthropicUrl =>
              /\ HeadersOf(outbound[1]) =
                  { <<"Content-Type", <<"a", "p", "p", "l", "i", "c", "a", "t", "i", "o", "n", "/", "j", "s", "o", "n">>>>,
                    <<"x-api-key", SentKey>>,
                    <<"anthropic-version", <<"2", "0", "2", "3", "-", "0", "6", "-", "0", "1">>>> }
              /\ "Authorization" \notin HeaderNames(outbound[1])

\* The key "sk-A 1" has gone to Anthropic in the x-api-key header.
C15_Witness ==
    /\ RoutedTo(AnthropicUrl)
    /\ SentKey = <<"s", "k", "-", "A", " ", "1">>
    /\ <<"x-api-key", <<"s", "k", "-", "A", " ", "1">>>> \in HeadersOf(outbound[1])

\* C16: the outbound body carries the caller's model, temperature and token
\* count unchanged, the token count as max_completion_tokens for OpenAI and as
\* max_tokens for Anthropic and Deepseek, and for OpenAI and Deepseek the
\* caller's messages list as it came, system messages included.
C16_FieldsForwardedUnchanged ==
    outbound # <<>> =>
        LET out == CallBody
            req == Sent.val
            url == outbound[1].url
        IN  /\ HasOwn(out, K_model) /\ Get(out, K_model) = Get(req, K_model)
            /\ HasOwn(out, K_temperature)
            /\ Get(out, K_temperature) = Get(req, K_temperature)
            /\ url = OpenAIUrl =>
                  /\ HasOwn(out, K_max_completion_tokens)
                  /\ Get(out, K_max_completion_tokens) = Get(req, K_max_completion_tokens)
                  /\ ~HasOwn(out, K_max_tokens)
            /\ url \in {AnthropicUrl, DeepseekUrl} =>
                  /\ HasOwn(out, K_max_tokens)
                  /\ Get(out, K_max_tokens) = Get(req, K_max_completion_tokens)
                  /\ ~HasOwn(out, K_max_completion_tokens)
            /\ url \in {OpenAIUrl, DeepseekUrl} =>
                  /\ HasOwn(out, K_messages)
                  /\ Get(out, K_messages) = Get(req, K_messages)

\* A list of three messages that ends with two system messages has gone to
\* Deepseek as it came, with temperature 0.5 and max_tokens 100.
C16_Witness ==
    /\ RoutedTo(DeepseekUrl)
    /\ SentField(K_messages) = Arr(<<UserHi, SysEmpty, SysTerse>>)
    /\ Get(CallBody, K_messages) = Arr(<<UserHi, SysEmpty, SysTerse>>)
    /\ Get(CallBody, K_temperature) = Num(<<"0", ".", "5">>)
    /\ Get(CallBody, K_max_tokens) = Num(<<"1", "0", "0">>)

\* C17: from dispatch on, the handler's request object equals the request as it
\* was parsed: every field, the messages list and each message are what the
\* caller sent, whichever adapter ran and whatever the upstream did.
C17_RequestNotMutated ==
    (pc # "idle" /\ Sent.ok) => body = Sent.val

\* The Anthropic adapter has sent only the user message, the upstream has
\* replied, and the request still holds the system and the user message.
C17_Witness ==
    /\ Replied
    /\ RoutedTo(AnthropicUrl)
    /\ Get(CallBody, K_messages) = Arr(<<UserHi>>)
    /\ Get(body, K_messages) = Arr(<<SysTerse, UserHi>>)
    /\ body = Sent.val

\* The text the page posts for model gpt-4.1 with the response format json_object.
GptJsonRequest ==
    JSONStringify(handleSubmit_body(
        FormData(<<"k">>, <<"g", "p", "t", "-", "4", ".", "1">>, <<"B", "e", " ", "t", "e", "r", "s", "e", ".">>, <<"H", "i">>, Num(<<"0", ".", "5">>), <<"j", "s", "o", "n", "_", "o", "b", "j", "e", "c", "t">>,
                 Num(<<"1", "0", "0">>))))

\* C18: a request for model gpt-4.1 with the response format json_object gives
\* one call to OpenAI whose body has response_format equal to
\* {type: "json_object"}.
C18_GptJsonObject ==
    (pc # "idle" /\ request = GptJsonRequest) =>
        /\ Len(outbound) = 1
        /\ outbound[1].url = OpenAIUrl
        /\ HasOwn(CallBody, K_response_format)
        /\ Get(CallBody, K_response_format) = Obj(<< <<<<"t", "y", "p", "e">>, Str(<<"j", "s", "o", "n", "_", "o", "b", "j", "e", "c", "t">>)>> >>)

\* That request has been sent on to OpenAI and answered.
C18_Witness ==
    /\ Replied
    /\ request = GptJsonRequest
    /\ RoutedTo(OpenAIUrl)
    /\ Get(CallBody, K_response_format) = ResponseFormat(<<"j", "s", "o", "n", "_", "o", "b", "j", "e", "c", "t">>)

\* The request {apiKey "k", model "claude-sonnet-4-20250514", messages
\* [system "Be terse.", user "Hi"], temperature 0.5, max_completion_tokens 100}.
TerseClaudeRequest ==
    Obj(<< <<<<"a", "p", "i", "K", "e", "y">>, Str(<<"k">>)>>,
           <<<<"m", "o", "d", "e", "l">>, Str(<<"c", "l", "a", "u", "d", "e", "-", "s", "o", "n", "n", "e", "t", "-", "4", "-", "2", "0", "2", "5", "0", "5", "1", "4">>)>>,
           <<<<"m", "e", "s", "s", "a", "g", "e", "s">>, Arr(<< Msg(<<"s", "y", "s", "t", "e", "m">>, <<"B", "e", " ", "t", "e", "r", "s", "e", ".">>), Msg(<<"u", "s", "e", "r">>, <<"H", "i">>) >>)>>,
           <<<<"t", "e", "m", "p", "e", "r", "a", "t", "u", "r", "e">>, Num(<<"0", ".", "5">>)>>,
           <<<<"m", "a", "x", "_", "c", "o", "m", "p", "l", "e", "t", "i", "o", "n", "_", "t", "o", "k", "e", "n", "s">>, Num(<<"1", "0", "0">>)>> >>)

\* C19: that request gives exactly one outbound call, to Anthropic, whose body
\* has exactly the five fields model "claude-sonnet-4-20250514", max_tokens 100,
\* temperature 0.5, messages [user "Hi"] and system "Be terse.".
C19_TerseClaudeScenario ==
    (pc # "idle" /\ Sent.ok /\ Sent.val = TerseClaudeRequest) =>
        /\ Len(outbound) = 1
        /\ outbound[1].url = AnthropicUrl
        /\ JSONParse(outbound[1].body) =
              [ok |-> TRUE,
               val |-> Obj(<< <<<<"m", "o", "d", "e", "l">>, Str(<<"c", "l", "a", "u", "d", "e", "-", "s", "o", "n", "n", "e", "t", "-", "4", "-", "2", "0", "2", "5", "0", "5", "1", "4">>)>>,
                              <<<<"m", "a", "x", "_", "t", "o", "k", "e", "n", "s">>, Num(<<"1", "0", "0">>)>>,
                              <<<<"t", "e", "m", "p", "e", "r", "a", "t", "u", "r", "e">>, Num(<<"0", ".", "5">>)>>,
                              <<<<"m", "e", "s", "s", "a", "g", "e", "s">>, Arr(<< Msg(<<"u", "s", "e", "r">>, <<"H", "i">>) >>)>>,
                              <<<<"s", "y", "s", "t", "e", "m">>, Str(<<"B", "e", " ", "t", "e", "r", "s", "e", ".">>)>> >>)]

\* The request has been sent on to Anthropic, which answered 200.
C19_Witness ==
    /\ Replied
    /\ upstream.status = 200
    /\ Sent.val = TerseClaudeRequest
    /\ RoutedTo(AnthropicUrl)
    /\ Get(CallBody, K_system) = Str(<<"B", "e", " ", "t", "e", "r", "s", "e", ".">>)

\* C20: with invocations interleaved in any order, the provider list is the one
\* the server started with, and two invocations that received the same request
\* issued the same outbound call and, given the same upstream outcome, returned
\* the same response: nothing of one invocation reaches another.
C20_InvocationsIndependent ==
    /\ providers = InitialProviders
    /\ \A i \in Calls : Len(calls[i].outbound) <= 1
    /\ \A i, j \in Calls :
          (calls[i].pc # "idle" /\ calls[j].pc # "idle"
              /\ calls[i].request = calls[j].request) =>
              /\ calls[i].outbound = calls[j].outbound
              /\ calls[i].body = calls[j].body
              /\ (calls[i].pc = "done" /\ calls[j].pc = "done"
                    /\ calls[i].upstream = calls[j].upstream) =>
                    calls[i].response = calls[j].response

\* Two invocations received the same request and issued the same call; the
\* upstream answered one with 200 and the other with 401, and each returned the
\* response to its own reply.
C20_Witness ==
    /\ calls[1].pc = "done" /\ calls[2].pc = "done"
    /\ calls[1].request = calls[2].request
    /\ calls[1].outbound # <<>>
    /\ calls[1].outbound = calls[2].outbound
    /\ calls[1].upstream.status = 200 /\ calls[1].response.status = 200
    /\ calls[2].upstream.status = 401 /\ calls[2].response.status = 401
    /\ providers = InitialProviders

\* The other four required fields are present with their types: a non-empty
\* string key and model, a list of message objects, a numeric token count.
OtherFieldsGiven ==
    /\ TypeOf(SentField(K_apiKey)) = "str" /\ SentField(K_apiKey) # Str(<<>>)
    /\ TypeOf(SentField(K_model)) = "str" /\ SentField(K_model) # Str(<<>>)
    /\ TypeOf(SentField(K_messages)) = "arr"
    /\ \A i \in 1..Len(SentMessages) : TypeOf(SentMessages[i]) = "obj"
    /\ TypeOf(SentField(K_max_completion_tokens)) = "num"

\* C22: a request whose temperature is a number, 0 and numbers outside 0-2
\* included, is not answered as missing a field: with the other fields given it
\* is dispatched, and the outbound body has that same temperature.
C22_TemperatureNotRanged ==
    (pc # "idle" /\ Sent.ok /\ TypeOf(SentField(K_temperature)) = "num" /\ OtherFieldsGiven) =>
        /\ Len(outbound) = 1
        /\ Get(CallBody, K_temperature) = SentField(K_temperature)
        /\ pc = "awaiting" \/ upstream.kind # "none"

\* Temperature 0 has been forwarded to OpenAI as 0.
C22_Witness ==
    /\ RoutedTo(OpenAIUrl)
    /\ SentField(K_temperature) = Num(<<"0">>)
    /\ Get(CallBody, K_temperature) = Num(<<"0">>)

\* The registered providers that accept the looked-up model, by position in
\* the order of registration.
Accepting ==
    {k \in 1..Len(lookup.registered) : canHandle(lookup.registered[k], lookup.model)}

\* C25: after any sequence of registrations a model that starts with "claude-"
\* goes to the Anthropic adapter and one that starts with "deepseek-" to the
\* Deepseek adapter; any other model goes to the earliest registered provider
\* that accepts it, and to the OpenAI adapter when none does.
C25_RegisteredAfterBuiltIns ==
    TypeOf(lookup.model) = "str" =>
        lookup.result =
            [throws |-> FALSE,
             provider |->
                IF HasPrefix(ValueOf(lookup.model), <<"c", "l", "a", "u", "d", "e", "-">>) THEN "ClaudeProvider"
                ELSE IF HasPrefix(ValueOf(lookup.model), <<"d", "e", "e", "p", "s", "e", "e", "k", "-">>) THEN "DeepseekProvider"
                ELSE IF Accepting = {} THEN "OpenAIProvider"
                ELSE lookup.registered[CHOOSE k \in Accepting : \A h \in Accepting : k <= h]]

\* With an accept-none, then a 'gpt-' and then an accept-all provider
\* registered, gpt-4.1 went to the 'gpt-' provider.
C25_Witness ==
    /\ lookup.registered = <<"NoneProvider", "GptProvider", "AnyProvider">>
    /\ lookup.model = Str(<<"g", "p", "t", "-", "4", ".", "1">>)
    /\ lookup.result.provider = "GptProvider"


\* C27: when the inbound body is not valid JSON, the relay issues no fetch and
\* answers 500 with {"error":{"message":"Internal server error"}}, not the 400
\* of the validation.
C27_BadInboundJsonIs500 ==
    (pc # "idle" /\ ~Sent.ok) =>
        /\ pc = "done"
        /\ outbound = <<>>
        /\ response = [status |-> 500, body |-> ErrorText(<<"I", "n", "t", "e", "r", "n", "a", "l", " ", "s", "e", "r", "v", "e", "r", " ", "e", "r", "r", "o", "r">>)]

\* The body "x" has been answered 500 without a fetch.
C27_Witness ==
    /\ pc = "done"
    /\ request = <<C("x")>>
    /\ outbound = <<>>
    /\ response.status = 500

\* C26: given the same request, the Strategy revision and the earlier inline
\* revision reach the same point, and for every request that passes validation
\* their outbound calls have the same URL, the same headers and the same body.
C26_RevisionsAgreeOnDispatch ==
    (calls[1].pc # "idle" /\ calls[2].pc # "idle" /\ calls[1].request = calls[2].request) =>
        /\ calls[1].pc = calls[2].pc
        /\ calls[1].outbound = calls[2].outbound
        /\ calls[1].response = calls[2].response

\* A request for deepseek-chat with a response format has been dispatched by
\* both revisions, each with one call to Deepseek.
C26_Witness ==
    /\ calls[1].pc = "awaiting" /\ calls[2].pc = "awaiting"
    /\ calls[1].request = calls[2].request
    /\ Get(calls[1].body, K_response_format) = ResponseFormat(<<"j", "s", "o", "n", "_", "o", "b", "j", "e", "c", "t">>)
    /\ calls[2].outbound # <<>>
    /\ calls[2].outbound[1].url = DeepseekUrl
    /\ calls[1].outbound = calls[2].outbound

StoredKeys == getStoredApiKeys(page.storage)

\* C21: no request the page sends to /api/chat carries the API key: the body
\* of the request has no apiKey member, or an empty one.
C21_KeyNotTransmitted ==
    \A i \in 1..Len(page.sent) :
        Get(JSONParse(page.sent[i]).val, K_apiKey) \in {Undefined, Str(<<>>)}

\* The entries of the list before a step that are gone after it.
Deleted ==
    {i \in 1..Len(StoredKeys) :
        \A j \in 1..Len(getStoredApiKeys(page'.storage)) :
            getStoredApiKeys(page'.storage)[j] # StoredKeys[i]}

\* C23: a step of the page that deletes a stored key empties the API-key field
\* when the deleted entry's key is the field's value, and leaves the field as it
\* is otherwise, a typed and never saved value included.
C23_DeleteClearsOnlyOwnKey ==
    [][(page.mounted /\ page'.mounted /\ Deleted # {}) =>
          page'.formData.apiKey =
              IF \E i \in Deleted : KeyOf(StoredKeys[i]) = page.formData.apiKey THEN <<>>
              ELSE page.formData.apiKey]_vars

\* C24: a mount that finds a key of the older page in local storage ends with
\* that item removed and its value among the stored keys, whether or not the
\* value was among them before.
C24_LegacyKeyMigrated ==
    [][(~page.mounted /\ page'.mounted /\ page.storage.legacy.present) =>
          /\ ~page'.storage.legacy.present
          /\ SomeKey(getStoredApiKeys(page'.storage), page.storage.legacy.text)]_vars

C29_OutputXorError ==
    ~(page.output # Str(<<>>) /\ page.error # Str(<<>>))

\* A submission has ended with the output "Hello" and no error.
C29_Witness ==
    /\ page.sent # <<>> /\ ~page.isLoading
    /\ page.output = Str(<<"H", "e", "l", "l", "o">>)
    /\ page.error = Str(<<>>)

\* C30: the stored key list has no two entries with the same key and no two
\* entries with the same id.
C30_StoredKeysDistinct ==
    \A i, j \in 1..Len(StoredKeys) :
        i # j => /\ KeyOf(StoredKeys[i]) # KeyOf(StoredKeys[j])
                 /\ IdOf(StoredKeys[i]) # IdOf(StoredKeys[j])

====
